---- MODULE Spec2Model ----
(***************************************************************************)
(* Partition & selection engine of the Buenos Aires division map.          *)
(*                                                                         *)
(* Two builds of the engine live in the repository and both are modelled:  *)
(*   variant = "script"   the single-file build  (src/script.js)           *)
(*   variant = "modular"  the split build (src/unnamed/part_002,           *)
(*                        src/js/map-core.js, src/js/ui-controls.js)       *)
(* The rendered lists are the engine's source of truth: mainList is the    *)
(* #all-departments-list element, divisionList[i] is #division-i, and      *)
(* departmentGroups is the store that updateDepartmentGroups re-derives    *)
(* from them.  A list item is [nam, sel]: its data-dept-name and whether   *)
(* it carries the CSS class "selected".                                    *)
(***************************************************************************)
EXTENDS Integers, Sequences, FiniteSets, TLC

VARIABLES variant, loads, phase, partidosData,
          currentDivisionCount, mainList, divisionList,
          departmentGroups, selectedDepartments, currentRegionType,
          polygonMode, polygonPoints, regionesExistentes,
          comparisonTable, remainingCount,
          sortTimer, deselectTimer, lastOp, used

vars == <<variant, loads, phase, partidosData,
          currentDivisionCount, mainList, divisionList,
          departmentGroups, selectedDepartments, currentRegionType,
          polygonMode, polygonPoints, regionesExistentes,
          comparisonTable, remainingCount,
          sortTimer, deselectTimer, lastOp, used>>

(***************************************************************************)
(* Bounds of the exploration                                               *)
(***************************************************************************)
MaxOps == 2
MaxMoves == 3
MaxResizeOps == 2
MaxSelectOps == 2
MaxDeepOps == 3
MaxPoints == 3
MaxCount == 4
MaxStartOps == 1
MaxTableOps == 2
MaxPolygonOps == 1
MaxSortDrags == 2
MaxSortOps == 3
MaxCalmOps == 2

(***************************************************************************)
(* Program constants                                                       *)
(***************************************************************************)
DivisionLimit == 12
InitialCount == 3
PointLimit == 100
MinPoints == 3

POOL == 0

Variants == {"script", "modular"}

(***************************************************************************)
(* PBA.geojson: the features in file order.  cde and nam are the fields    *)
(* loadGeoJSON reads; ext is the layer's bounding box [w, e, s, n].        *)
(***************************************************************************)
PBAFeatures ==
  << [cde |-> "06098", nam |-> "berisso", ext |-> <<16, 24, 16, 24>>],
     [cde |-> "06175", nam |-> "Colon",   ext |-> <<18, 28, 2, 8>>],
     [cde |-> "06049", nam |-> "Azul",    ext |-> <<2, 8, 2, 8>>] >>

toUpperCase(s) ==
  CASE s = "Azul" -> "AZUL"
    [] s = "berisso" -> "BERISSO"
    [] s = "Colon" -> "COLON"
    [] OTHER -> s

\* Position of a string in the collation order used by localeCompare.
CollationRank(s) ==
  CASE s \in {"Azul", "AZUL"} -> 1
    [] s \in {"berisso", "BERISSO"} -> 2
    [] s \in {"Colon", "COLON"} -> 3
    [] OTHER -> 4

localeCompare(a, b) ==
  IF CollationRank(a) < CollationRank(b) THEN -1
  ELSE IF CollationRank(a) > CollationRank(b) THEN 1 ELSE 0

(***************************************************************************)
(* Palettes                                                                *)
(***************************************************************************)
divisionColorsScript ==
  << "#1f77b4", "#ff7f0e", "#2ca02c", "#d62728", "#9467bd", "#8c564b",
     "#e377c2", "#7f7f7f", "#bcbd22", "#17becf", "#9edae5", "#ff9896" >>

divisionColorsModular ==
  << "#1f77b4", "#ff7f0e", "#2ca02c", "#d62728", "#9467bd",
     "#8c564b", "#e377c2", "#7f7f7f", "#bcbd22", "#17becf" >>

divisionColors(v) ==
  IF v = "script" THEN divisionColorsScript ELSE divisionColorsModular

FallbackColor == "#3388ff"

\* divisionColors[i - 1] || '#3388ff'
colorOf(v, i) ==
  IF i \in DOMAIN divisionColors(v) THEN divisionColors(v)[i] ELSE FallbackColor

defaultName(i) == <<"Division", i>>

(***************************************************************************)
(* List helpers                                                            *)
(***************************************************************************)
NewItem(n) == [nam |-> n, sel |-> FALSE]

Names(list) == [k \in DOMAIN list |-> list[k].nam]

HasName(list, n) == \E k \in DOMAIN list : list[k].nam = n

RemoveAt(list, k) == SubSeq(list, 1, k - 1) \o SubSeq(list, k + 1, Len(list))

InsertAt(list, p, it) == SubSeq(list, 1, p - 1) \o <<it>> \o SubSeq(list, p, Len(list))

Min(a, b) == IF a < b THEN a ELSE b

RECURSIVE InsertSorted(_, _)
InsertSorted(sorted, it) ==
  IF sorted = <<>> THEN <<it>>
  ELSE IF localeCompare(toUpperCase(it.nam), toUpperCase(sorted[Len(sorted)].nam)) >= 0
       THEN Append(sorted, it)
       ELSE Append(InsertSorted(SubSeq(sorted, 1, Len(sorted) - 1), it),
                   sorted[Len(sorted)])

RECURSIVE SortFrom(_, _)
SortFrom(list, acc) ==
  IF list = <<>> THEN acc
  ELSE SortFrom(Tail(list), InsertSorted(acc, Head(list)))

\* The stable sort of the pool by upper-cased name.
sortMainList(list) == SortFrom(list, <<>>)

(***************************************************************************)
(* Unit catalog: the features as loadGeoJSON leaves them in allDepartments *)
(* once the fetch has succeeded (sorted by upper-cased name).              *)
(***************************************************************************)
\* loadGeoJSON without the sort of the features.
allDepartmentsUnsorted == PBAFeatures

allDepartments == SortFrom(PBAFeatures, <<>>)

CatalogNames == {allDepartments[i].nam : i \in DOMAIN allDepartments}

removeDepartmentFromMainList(list, n) == SelectSeq(list, LAMBDA it : it.nam # n)

\* except = POOL stands for "no division excepted".
removeDepartmentFromAllDivisions(divs, n, except) ==
  [i \in DOMAIN divs |->
     IF i # except THEN SelectSeq(divs[i], LAMBDA it : it.nam # n) ELSE divs[i]]

returnDepartmentToMainList(list, n) == sortMainList(Append(list, NewItem(n)))

\* updateDepartmentGroups without the reset of each member list.
updateDepartmentGroupsAppends(groups, divs) ==
  [g \in DOMAIN groups |->
     IF g \in DOMAIN divs
     THEN [groups[g] EXCEPT !.departments = groups[g].departments \o Names(divs[g])]
     ELSE groups[g]]

updateDepartmentGroups(groups, divs) ==
  [g \in DOMAIN groups |->
     IF g \in DOMAIN divs
     THEN [groups[g] EXCEPT !.departments = Names(divs[g])]
     ELSE [groups[g] EXCEPT !.departments = <<>>]]

populateDepartmentsList == [k \in DOMAIN allDepartments |-> NewItem(allDepartments[k].nam)]

(***************************************************************************)
(* Resize                                                                  *)
(***************************************************************************)
RECURSIVE ReturnAll(_, _)
ReturnAll(list, names) ==
  IF names = <<>> THEN list
  ELSE ReturnAll(returnDepartmentToMainList(list, Head(names)), Tail(names))

RECURSIVE processDivisionReduction(_, _, _, _)
processDivisionReduction(list, i, count, previousGroups) ==
  IF i > count THEN list
  ELSE processDivisionReduction(
         IF i \in DOMAIN previousGroups
         THEN ReturnAll(list, previousGroups[i].departments) ELSE list,
         i + 1, count, previousGroups)

\* initializeDivisionBoxes with the snapshot taken after the store was
\* emptied: no division gets its departments back.
initializeDivisionBoxesLateSnapshot(v, s, newCount) ==
  LET list == IF newCount < s.count
              THEN processDivisionReduction(s.main, newCount + 1, s.count, s.groups)
              ELSE s.main
      divs == [i \in 1..newCount |-> <<>>]
      fresh == [i \in 1..newCount |->
                 [color |-> colorOf(v, i), departments |-> <<>>, name |-> defaultName(i)]]
  IN [count |-> newCount, main |-> list, divs |-> divs, groups |-> fresh]

\* The state initializeDivisionBoxes(newCount) leaves, from the lists and store s.
initializeDivisionBoxes(v, s, newCount) ==
  LET previousGroups == s.groups
      list == IF newCount < s.count
              THEN processDivisionReduction(s.main, newCount + 1, s.count, previousGroups)
              ELSE s.main
      divs == [i \in 1..newCount |->
                 IF i \in DOMAIN previousGroups
                 THEN [k \in DOMAIN previousGroups[i].departments |->
                         NewItem(previousGroups[i].departments[k])]
                 ELSE <<>>]
      fresh == [i \in 1..newCount |->
                 [color |-> colorOf(v, i), departments |-> <<>>, name |-> defaultName(i)]]
  IN [count |-> newCount, main |-> list, divs |-> divs,
      groups |-> updateDepartmentGroups(fresh, divs)]

(***************************************************************************)
(* Attribute table and comparison table                                    *)
(***************************************************************************)
\* What loadPartidosData can leave in partidosData: "null" when the fetch
\* failed, "sinDatos" for a document without the key datos, else a table.
PartidosFiles == {"sinDatos", "tablaA", "tablaB"}

\* partidosData.datos by unit code; a value 0 stands for a variable that is
\* 0 or absent in the entry.
datos(pd) ==
  CASE pd = "tablaA" ->
         ("06049" :> [superficie |-> 100, poblacion_total |-> 50])
           @@ ("06098" :> [superficie |-> 200, poblacion_total |-> 100])
    [] pd = "tablaB" ->
         ("06049" :> [superficie |-> 1000, poblacion_total |-> 0])
           @@ ("06098" :> [superficie |-> 0, poblacion_total |-> 30])
           @@ ("06175" :> [superficie |-> 3000, poblacion_total |-> 1000])
    [] OTHER -> <<>>

\* partidosData && partidosData.datos
HasDatos(pd) == pd \notin {"null", "sinDatos"}

\* allDepartments as the program holds it: empty until loadGeoJSON succeeds.
Catalog(ld) == IF ld.geo = "ok" THEN allDepartments ELSE <<>>

\* "null" when no feature has the name.
obtenerCodigoCdePorNombre(catalog, nombreDepartamento) ==
  IF \E k \in DOMAIN catalog : catalog[k].nam = nombreDepartamento
  THEN catalog[CHOOSE k \in DOMAIN catalog :
                 /\ catalog[k].nam = nombreDepartamento
                 /\ \A j \in 1..(k - 1) : catalog[j].nam # nombreDepartamento].cde
  ELSE "null"

\* The test of the forEach body of calcularTotalDivision.
TieneDato(pd, codigoCde, variable) ==
  /\ codigoCde # "null"
  /\ codigoCde \in DOMAIN datos(pd)
  /\ datos(pd)[codigoCde][variable] # 0

\* calcularTotalDivision that gives up on the first member without data.
calcularTotalDivisionAllOrNothing(pd, catalog, groups, grupoId, variable) ==
  IF ~HasDatos(pd) THEN 0
  ELSE LET partidosEnGrupo == groups[grupoId].departments
           F[k \in 0..Len(partidosEnGrupo)] ==
             IF k = 0 THEN [total |-> 0, partidosConDatos |-> 0]
             ELSE LET codigoCde == obtenerCodigoCdePorNombre(catalog, partidosEnGrupo[k])
                  IN IF TieneDato(pd, codigoCde, variable)
                     THEN [total |-> F[k - 1].total + datos(pd)[codigoCde][variable],
                           partidosConDatos |-> F[k - 1].partidosConDatos + 1]
                     ELSE F[k - 1]
           r == F[Len(partidosEnGrupo)]
       IN IF r.partidosConDatos = Len(partidosEnGrupo) THEN r.total ELSE 0

calcularTotalDivision(pd, catalog, groups, grupoId, variable) ==
  IF ~HasDatos(pd) THEN 0
  ELSE LET partidosEnGrupo == groups[grupoId].departments
           F[k \in 0..Len(partidosEnGrupo)] ==
             IF k = 0 THEN [total |-> 0, partidosConDatos |-> 0]
             ELSE LET codigoCde == obtenerCodigoCdePorNombre(catalog, partidosEnGrupo[k])
                  IN IF TieneDato(pd, codigoCde, variable)
                     THEN [total |-> F[k - 1].total + datos(pd)[codigoCde][variable],
                           partidosConDatos |-> F[k - 1].partidosConDatos + 1]
                     ELSE F[k - 1]
           r == F[Len(partidosEnGrupo)]
       IN IF r.partidosConDatos > 0 THEN r.total ELSE 0

\* Number.prototype.toFixed(1) of the quotient p / s as the pair of its
\* integer part and its decimal digit: the nearest tenth, the larger one on
\* a tie. (toFixed rounds the double nearest to p / s; the only quotients
\* of the tables below that fall on a tie are multiples of 0.25, which the
\* double holds exactly.)
toFixed1(p, s) ==
  LET tenths == (20 * p + s) \div (2 * s)
  IN [entero |-> tenths \div 10, decimal |-> tenths % 10]

\* The string '0.0'.
Sentinel == [entero |-> 0, decimal |-> 0]

\* calcularDensidadDivision that divides whenever there is population.
calcularDensidadDivisionUnguarded(pd, catalog, groups, grupoId) ==
  LET poblacion == calcularTotalDivision(pd, catalog, groups, grupoId, "poblacion_total")
      superficie == calcularTotalDivision(pd, catalog, groups, grupoId, "superficie")
  IN IF poblacion > 0
     THEN IF superficie = 0 THEN [entero |-> -1, decimal |-> 0]
          ELSE toFixed1(poblacion, superficie)
     ELSE Sentinel

calcularDensidadDivision(pd, catalog, groups, grupoId) ==
  LET poblacion == calcularTotalDivision(pd, catalog, groups, grupoId, "poblacion_total")
      superficie == calcularTotalDivision(pd, catalog, groups, grupoId, "superficie")
  IN IF superficie > 0 /\ poblacion > 0
     THEN toFixed1(poblacion, superficie)
     ELSE Sentinel

\* The digit groups the regular expression of formatearNumero separates
\* with '.', most significant first: 1300 is <<1, 300>>, shown "1.300".
RECURSIVE Miles(_)
Miles(n) == IF n < 1000 THEN <<n>> ELSE Append(Miles(n \div 1000), n % 1000)

\* formatearNumero of a number.
formatearNumero(numero) == IF numero = 0 THEN <<0>> ELSE Miles(numero)

\* formatearNumero of the string toFixed(1) gave: only the integer part has
\* groups of three digits to separate.
formatearDensidad(d) == [entero |-> Miles(d.entero), decimal |-> d.decimal]

\* calcularTotalDivision reads departmentGroups[grupoId].departments: a
\* TypeError when the store has no such group.
TotalFaults(pd, groups, grupoId) == HasDatos(pd) /\ grupoId \notin DOMAIN groups

\* The comparison table before the first updateComparisonTable.
BlankTable ==
  [nombres |-> <<>>, cantidad |-> <<>>, mensaje |-> FALSE, falla |-> FALSE,
   superficie |-> <<>>, poblacion |-> <<>>, densidad |-> <<>>]

\* updateComparisonTable that omits the rows of the table when there is
\* no data, the row of counts included.
updateComparisonTableNoCounts(count, groups, pd, catalog) ==
  LET falla == \E i \in 1..count : TotalFaults(pd, groups, i)
      filas == HasDatos(pd) /\ ~falla
  IN [nombres |-> [i \in 1..count |->
                     IF i \in DOMAIN groups THEN groups[i].name ELSE defaultName(i)],
      cantidad |-> IF HasDatos(pd)
                   THEN [i \in 1..count |->
                           IF i \in DOMAIN groups THEN Len(groups[i].departments) ELSE 0]
                   ELSE <<>>,
      mensaje |-> ~HasDatos(pd),
      falla |-> falla,
      superficie |-> IF filas
                     THEN [i \in 1..count |->
                             formatearNumero(calcularTotalDivision(pd, catalog, groups, i, "superficie"))]
                     ELSE <<>>,
      poblacion |-> IF filas
                    THEN [i \in 1..count |->
                            formatearNumero(calcularTotalDivision(pd, catalog, groups, i, "poblacion_total"))]
                    ELSE <<>>,
      densidad |-> IF filas
                   THEN [i \in 1..count |->
                           formatearDensidad(calcularDensidadDivision(pd, catalog, groups, i))]
                   ELSE <<>>]

\* The table updateComparisonTable renders: the header names, the row of
\* counts, and either the three data rows or the message row.
updateComparisonTable(count, groups, pd, catalog) ==
  LET falla == \E i \in 1..count : TotalFaults(pd, groups, i)
      filas == HasDatos(pd) /\ ~falla
  IN [nombres |-> [i \in 1..count |->
                     IF i \in DOMAIN groups THEN groups[i].name ELSE defaultName(i)],
      cantidad |-> [i \in 1..count |->
                      IF i \in DOMAIN groups THEN Len(groups[i].departments) ELSE 0],
      mensaje |-> ~HasDatos(pd),
      falla |-> falla,
      superficie |-> IF filas
                     THEN [i \in 1..count |->
                             formatearNumero(calcularTotalDivision(pd, catalog, groups, i, "superficie"))]
                     ELSE <<>>,
      poblacion |-> IF filas
                    THEN [i \in 1..count |->
                            formatearNumero(calcularTotalDivision(pd, catalog, groups, i, "poblacion_total"))]
                    ELSE <<>>,
      densidad |-> IF filas
                   THEN [i \in 1..count |->
                           formatearDensidad(calcularDensidadDivision(pd, catalog, groups, i))]
                   ELSE <<>>]

Now == [count |-> currentDivisionCount, main |-> mainList,
        divs |-> divisionList, groups |-> departmentGroups]

NoOp == [op |-> "init", unit |-> "", from |-> 0, to |-> 0, batch |-> FALSE]

NoPoints == [n |-> 0, box |-> <<0, 0, 0, 0>>]

AllLoaded == [geo |-> "ok", partidos |-> "ok", regiones |-> "ok"]

\* The two refreshes at the end of a handler, from the state it leaves.
Refresh ==
  /\ comparisonTable' = updateComparisonTable(currentDivisionCount', departmentGroups',
                                              partidosData', Catalog(loads'))
  /\ remainingCount' = Len(mainList')

(***************************************************************************)
(* State at readiness: DOMContentLoaded handler after the three loads, all *)
(* of them successful                                                      *)
(***************************************************************************)
Init ==
  /\ variant \in Variants
  /\ loads = AllLoaded
  /\ phase = "ready"
  /\ partidosData = "tablaA"
  /\ comparisonTable =
       updateComparisonTable(InitialCount,
         [i \in 1..InitialCount |->
            [color |-> colorOf(variant, i), departments |-> <<>>, name |-> defaultName(i)]],
         "tablaA", allDepartments)
  /\ remainingCount = Len(populateDepartmentsList)
  /\ currentDivisionCount = InitialCount
  /\ mainList = populateDepartmentsList
  /\ divisionList = [i \in 1..InitialCount |-> <<>>]
  /\ departmentGroups =
       [i \in 1..InitialCount |->
          [color |-> colorOf(variant, i), departments |-> <<>>, name |-> defaultName(i)]]
  /\ selectedDepartments = <<>>
  /\ currentRegionType = "null"
  /\ polygonMode = FALSE
  /\ polygonPoints = NoPoints
  /\ regionesExistentes = "loaded"
  /\ sortTimer = FALSE
  /\ deselectTimer = FALSE
  /\ lastOp = NoOp
  /\ used = 0

\* setupDivisionSelector's change handler.
ChangeDivisionCount(choices, max) ==
  /\ phase = "ready"
  /\ used < max
  /\ \E newCount \in choices :
       /\ newCount # currentDivisionCount
       /\ LET r == initializeDivisionBoxes(variant, Now, newCount)
          IN /\ currentDivisionCount' = r.count
             /\ mainList' = r.main
             /\ divisionList' = r.divs
             /\ departmentGroups' = r.groups
       /\ currentRegionType' = "null"
       /\ lastOp' = [NoOp EXCEPT !.op = "resize", !.from = currentDivisionCount, !.to = newCount]
  /\ used' = used + 1
  /\ UNCHANGED <<variant, loads, phase, partidosData, selectedDepartments,
                 polygonMode, polygonPoints, regionesExistentes, sortTimer,
                 deselectTimer>>
  /\ Refresh

(***************************************************************************)
(* Drag and drop                                                           *)
(***************************************************************************)
ListOf(s, loc) == IF loc = POOL THEN s.main ELSE s.divs[loc]

WithList(s, loc, list) ==
  IF loc = POOL THEN [s EXCEPT !.main = list]
  ELSE [s EXCEPT !.divs = [s.divs EXCEPT ![loc] = list]]

\* What SortableJS has done to the lists when onEnd is dispatched: the item
\* sits at the drop position; a drag out of the pool (pull: 'clone') to
\* another list leaves a clone at the item's old place.
SortableDrop(s, from, k, to, p) ==
  LET it == ListOf(s, from)[k]
  IN IF from = to
     THEN WithList(s, from, InsertAt(RemoveAt(ListOf(s, from), k), p, it))
     ELSE IF from = POOL
          THEN WithList(s, to, InsertAt(ListOf(s, to), p, it))
          ELSE WithList(WithList(s, from, RemoveAt(ListOf(s, from), k)),
                        to, InsertAt(ListOf(s, to), p, it))

handleSingleDepartmentMove(s, n, to, from) ==
  IF to = POOL
  THEN [s EXCEPT !.divs = removeDepartmentFromAllDivisions(s.divs, n, POOL),
                 !.main = sortMainList(s.main)]
  ELSE IF from = POOL
       THEN [s EXCEPT !.main = removeDepartmentFromMainList(s.main, n),
                      !.divs = removeDepartmentFromAllDivisions(s.divs, n, to)]
       ELSE [s EXCEPT !.divs = removeDepartmentFromAllDivisions(s.divs, n, to)]

\* One iteration of moveSelectedDepartments' forEach.
MoveSelectedOne(s, n, to) ==
  LET cleared == [s EXCEPT !.main = removeDepartmentFromMainList(s.main, n),
                           !.divs = removeDepartmentFromAllDivisions(s.divs, n, to)]
  IN IF HasName(ListOf(cleared, to), n) THEN cleared
     ELSE WithList(cleared, to, Append(ListOf(cleared, to), NewItem(n)))

RECURSIVE moveSelectedDepartments(_, _, _)
moveSelectedDepartments(s, sel, to) ==
  IF sel = <<>> THEN s
  ELSE moveSelectedDepartments(MoveSelectedOne(s, Head(sel), to), Tail(sel), to)

FirstIndex(list, n) == CHOOSE k \in DOMAIN list :
  /\ list[k].nam = n
  /\ \A j \in 1..(k - 1) : list[j].nam # n

\* Where findDepartmentElement finds n: the pool first, then division 1..K.
\* -1 when there is no such element.
findDepartmentElement(s, n) ==
  IF HasName(s.main, n) THEN POOL
  ELSE IF \E i \in DOMAIN s.divs : HasName(s.divs[i], n)
       THEN CHOOSE i \in DOMAIN s.divs :
              /\ HasName(s.divs[i], n)
              /\ \A j \in 1..(i - 1) : ~HasName(s.divs[j], n)
       ELSE -1

\* One iteration of the forEach of the split build's handleDepartmentMove.
MoveOneModular(s, n, to) ==
  LET c == findDepartmentElement(s, n)
  IN IF c = -1 THEN s
     ELSE LET k == FirstIndex(ListOf(s, c), n)
              element == ListOf(s, c)[k]
          IN IF to = POOL
             THEN LET moved == IF c # POOL
                               THEN WithList(WithList(s, c, RemoveAt(ListOf(s, c), k)),
                                             POOL, Append(s.main, element))
                               ELSE s
                  IN [moved EXCEPT !.divs = removeDepartmentFromAllDivisions(moved.divs, n, POOL)]
             ELSE LET cleared ==
                        [s EXCEPT !.divs = removeDepartmentFromAllDivisions(s.divs, n, to),
                                  !.main = removeDepartmentFromMainList(s.main, n)]
                  IN IF c # to
                     THEN WithList(cleared, to, Append(ListOf(cleared, to), element))
                     ELSE cleared

RECURSIVE MoveAllModular(_, _, _)
MoveAllModular(s, names, to) ==
  IF names = <<>> THEN s
  ELSE MoveAllModular(MoveOneModular(s, Head(names), to), Tail(names), to)

Unmark(list) == [k \in DOMAIN list |-> [list[k] EXCEPT !.sel = FALSE]]

\* The DOM part of clearAllSelections.
clearSelectedClass(s) ==
  [s EXCEPT !.main = Unmark(s.main),
            !.divs = [i \in DOMAIN s.divs |-> Unmark(s.divs[i])]]

InSelection(sel, n) == \E k \in DOMAIN sel : sel[k] = n

\* Does the drag of item it move the whole selection?
MovesSelection(v, sel, it) ==
  IF v = "script"
  THEN Len(sel) > 0 /\ InSelection(sel, it.nam)
  ELSE it.sel /\ Len(sel) > 0

\* handleDepartmentMove(evt), lists as SortableJS left them.
handleDepartmentMove(v, s, sel, it, from, to) ==
  LET moved ==
        IF v = "script"
        THEN IF MovesSelection(v, sel, it)
             THEN moveSelectedDepartments(s, sel, to)
             ELSE handleSingleDepartmentMove(s, it.nam, to, from)
        ELSE LET m == MoveAllModular(s, IF MovesSelection(v, sel, it) THEN sel ELSE <<it.nam>>, to)
                 u == clearSelectedClass(m)
             IN [u EXCEPT !.main = sortMainList(u.main)]
  IN [moved EXCEPT !.groups = updateDepartmentGroups(moved.groups, moved.divs)]

Locations == {POOL} \cup (1..currentDivisionCount)

DragEnd(max) ==
  /\ phase = "ready"
  /\ used < max
  /\ \E from \in Locations, to \in Locations :
       \E k \in DOMAIN ListOf(Now, from) :
         \E p \in 1..(Len(ListOf(Now, to)) + (IF from = to THEN 0 ELSE 1)) :
           LET it == ListOf(Now, from)[k]
               batch == MovesSelection(variant, selectedDepartments, it)
               r == handleDepartmentMove(variant, SortableDrop(Now, from, k, to, p),
                                         selectedDepartments, it, from, to)
           IN /\ mainList' = r.main
              /\ divisionList' = r.divs
              /\ departmentGroups' = r.groups
              /\ selectedDepartments' =
                   IF variant = "script" /\ ~batch THEN selectedDepartments ELSE <<>>
              /\ sortTimer' = (sortTimer \/ (to = POOL /\ from # POOL))
              /\ lastOp' = [op |-> "drag", unit |-> it.nam, from |-> from,
                            to |-> to, batch |-> batch]
  /\ currentRegionType' = "null"
  /\ used' = used + 1
  /\ UNCHANGED <<variant, loads, phase, partidosData, currentDivisionCount,
                 polygonMode, polygonPoints, regionesExistentes, deselectTimer>>
  /\ Refresh

\* The deferred callback with a sort whose loop re-appends the sorted items
\* from the second one on: the first is left out of the pool.
SortTimerFiresSkipsFirst ==
  /\ sortTimer
  /\ sortTimer' = FALSE
  /\ mainList' = IF mainList = <<>> THEN <<>> ELSE Tail(sortMainList(mainList))
  /\ lastOp' = [NoOp EXCEPT !.op = "sortTimer"]
  /\ UNCHANGED <<variant, loads, phase, partidosData, currentDivisionCount,
                 divisionList, departmentGroups, selectedDepartments,
                 currentRegionType, polygonMode, polygonPoints, regionesExistentes,
                 comparisonTable, remainingCount, deselectTimer, used>>

\* The callback the pool's onAdd defers by 100 ms.
SortTimerFires ==
  /\ sortTimer
  /\ sortTimer' = FALSE
  /\ mainList' = sortMainList(mainList)
  /\ lastOp' = [NoOp EXCEPT !.op = "sortTimer"]
  /\ UNCHANGED <<variant, loads, phase, partidosData, currentDivisionCount,
                 divisionList, departmentGroups, selectedDepartments,
                 currentRegionType, polygonMode, polygonPoints, regionesExistentes,
                 comparisonTable, remainingCount, deselectTimer, used>>

(***************************************************************************)
(* Polygon selection                                                       *)
(***************************************************************************)
ClickPoints == {<<0, 0>>, <<20, 20>>}

Max(a, b) == IF a > b THEN a ELSE b

\* polygonPoints.push(e.latlng), kept as the count and the bounds of the points.
PushPoint(pts, pt) ==
  IF pts.n = 0
  THEN [n |-> 1, box |-> <<pt[1], pt[1], pt[2], pt[2]>>]
  ELSE [n |-> pts.n + 1,
        box |-> <<Min(pts.box[1], pt[1]), Max(pts.box[2], pt[1]),
                  Min(pts.box[3], pt[2]), Max(pts.box[4], pt[2])>>]

\* LatLngBounds.intersects / contains / getCenter
BoundsIntersect(a, b) ==
  /\ b[2] >= a[1] /\ b[1] <= a[2]
  /\ b[4] >= a[3] /\ b[3] <= a[4]

BoundsContain(box, pt) ==
  /\ pt[1] >= box[1] /\ pt[1] <= box[2]
  /\ pt[2] >= box[3] /\ pt[2] <= box[4]

getCenter(ext) == <<(ext[1] + ext[2]) \div 2, (ext[3] + ext[4]) \div 2>>

\* finalizePolygon without the centroid test.
InsidePolygonBoundsOnly(box, dept) == BoundsIntersect(box, dept.ext)

InsidePolygon(box, dept) ==
  /\ BoundsIntersect(box, dept.ext)
  /\ BoundsContain(box, getCenter(dept.ext))

\* The names finalizePolygon pushes, in layer order.
SelectByPolygon(box) ==
  LET F[k \in 0..Len(allDepartments)] ==
        IF k = 0 THEN <<>>
        ELSE IF InsidePolygon(box, allDepartments[k])
             THEN Append(F[k - 1], allDepartments[k].nam)
             ELSE F[k - 1]
  IN F[Len(allDepartments)]

\* src/script.js: append the selected units the pool lacks, then sort.
RECURSIVE AppendMissing(_, _)
AppendMissing(list, sel) ==
  IF sel = <<>> THEN list
  ELSE AppendMissing(IF HasName(list, Head(sel)) THEN list
                     ELSE Append(list, NewItem(Head(sel))), Tail(sel))

moveSelectedToMainListScript(s, sel) ==
  [s EXCEPT !.main = sortMainList(AppendMissing(s.main, sel))]

LastIndex(list, n) == CHOOSE k \in DOMAIN list :
  /\ list[k].nam = n
  /\ \A j \in (k + 1)..Len(list) : list[j].nam # n

\* src/js/ui-controls.js: each selected unit goes to the front of the pool.
RECURSIVE ToFront(_, _)
ToFront(list, sel) ==
  IF sel = <<>> THEN list
  ELSE LET n == Head(sel)
       IN ToFront(IF HasName(list, n)
                  THEN <<[list[LastIndex(list, n)] EXCEPT !.sel = TRUE]>>
                       \o RemoveAt(list, LastIndex(list, n))
                  ELSE <<[nam |-> n, sel |-> TRUE]>> \o list,
                  Tail(sel))

moveSelectedToMainListModular(s, sel) ==
  LET u == clearSelectedClass(s)
  IN [u EXCEPT !.main = ToFront(u.main, sel)]

\* One division of markSelectedInDivisions: the items of the snapshot, in
\* order, are marked and moved to the front when selected.
RECURSIVE MarkList(_, _, _)
MarkList(snapshot, front, sel) ==
  IF snapshot = <<>> THEN front
  ELSE MarkList(Tail(snapshot),
                IF InSelection(sel, Head(snapshot).nam)
                THEN <<[Head(snapshot) EXCEPT !.sel = TRUE]>> \o front
                ELSE front,
                sel)

markSelectedInDivisions(s, sel) ==
  [s EXCEPT !.divs =
     [i \in DOMAIN s.divs |->
        MarkList(s.divs[i], <<>>, sel)
          \o SelectSeq(s.divs[i], LAMBDA it : ~InSelection(sel, it.nam))]]

\* The lists finalizePolygon leaves for the new selection sel.
AfterSelection(v, s, sel) ==
  IF Len(sel) = 0 THEN s
  ELSE IF v = "script" THEN moveSelectedToMainListScript(s, sel)
       ELSE markSelectedInDivisions(moveSelectedToMainListModular(s, sel), sel)

\* The polygon button.
TogglePolygonMode(max) ==
  /\ phase = "ready"
  /\ IF polygonMode
     THEN /\ polygonMode' = FALSE
          /\ UNCHANGED <<polygonPoints, selectedDepartments, used>>
     ELSE /\ used < max
          /\ polygonMode' = TRUE
          /\ polygonPoints' = NoPoints
          /\ selectedDepartments' = <<>>
          /\ used' = used + 1
  /\ lastOp' = [NoOp EXCEPT !.op = "polygonButton"]
  /\ UNCHANGED <<variant, loads, phase, partidosData, currentDivisionCount,
                 mainList, divisionList, departmentGroups, currentRegionType,
                 regionesExistentes, comparisonTable, remainingCount, sortTimer,
                 deselectTimer>>

\* The department whose layer lies under a map point ("" when none).
DepartmentAt(pt) ==
  IF \E k \in DOMAIN allDepartments : BoundsContain(allDepartments[k].ext, pt)
  THEN allDepartments[CHOOSE k \in DOMAIN allDepartments :
                        BoundsContain(allDepartments[k].ext, pt)].nam
  ELSE ""

\* A left click on the map: the layer's click handler, the deselect listener
\* (src/script.js only) and, in polygon mode, handleMapClick.  Without the
\* catalog there are no layers and geoJsonLayer is undefined: finalizePolygon
\* then throws once it has emptied selectedDepartments, before
\* deactivatePolygonMode.  lastOp.unit is the department clicked and
\* lastOp.batch tells whether the click finalized the polygon.
MapClick(points, limit) ==
  \E pt \in points :
    LET dept == IF loads.geo = "ok" THEN DepartmentAt(pt) ELSE ""
        sel1 == IF /\ variant = "script"
                   /\ dept # ""
                   /\ Len(selectedDepartments) > 0
                   /\ ~InSelection(selectedDepartments, dept)
                THEN <<>> ELSE selectedDepartments
        pts == PushPoint(polygonPoints, pt)
        reached == polygonMode /\ pts.n >= PointLimit
        finalize == reached /\ loads.geo = "ok"
        sel2 == IF finalize THEN SelectByPolygon(pts.box)
                ELSE IF reached THEN <<>> ELSE sel1
        r == IF finalize THEN AfterSelection(variant, Now, sel2) ELSE Now
    IN /\ phase = "ready" \/ loads.geo = "ok"
       /\ polygonMode => polygonPoints.n < limit
       /\ polygonPoints' = IF polygonMode THEN pts ELSE polygonPoints
       /\ polygonMode' = (polygonMode /\ ~finalize)
       /\ selectedDepartments' = sel2
       /\ mainList' = r.main
       /\ divisionList' = r.divs
       /\ remainingCount' = IF finalize /\ Len(sel2) > 0 THEN Len(r.main)
                             ELSE remainingCount
       /\ deselectTimer' = (deselectTimer \/ (variant = "script" /\ phase = "ready"))
       /\ lastOp' = [NoOp EXCEPT !.op = "mapClick", !.unit = dept, !.batch = finalize]
       /\ UNCHANGED <<variant, loads, phase, partidosData, currentDivisionCount,
                      departmentGroups, currentRegionType, regionesExistentes,
                      comparisonTable, sortTimer, used>>

\* The deferred callback with a clearSelection that restores the styles
\* but does not empty selectedDepartments.
DeselectTimerFiresKeepsList ==
  /\ deselectTimer
  /\ deselectTimer' = FALSE
  /\ lastOp' = [NoOp EXCEPT !.op = "deselectTimer",
                            !.batch = (Len(selectedDepartments) > 0)]
  /\ UNCHANGED <<variant, loads, phase, partidosData, currentDivisionCount,
                 mainList, divisionList, departmentGroups, selectedDepartments,
                 currentRegionType, polygonMode, polygonPoints, regionesExistentes,
                 comparisonTable, remainingCount, sortTimer, used>>

\* The callback setupMapClickDeselect defers by 10 ms.
DeselectTimerFires ==
  /\ deselectTimer
  /\ deselectTimer' = FALSE
  /\ selectedDepartments' = <<>>
  /\ lastOp' = [NoOp EXCEPT !.op = "deselectTimer",
                            !.batch = (Len(selectedDepartments) > 0)]
  /\ UNCHANGED <<variant, loads, phase, partidosData, currentDivisionCount,
                 mainList, divisionList, departmentGroups, currentRegionType,
                 polygonMode, polygonPoints, regionesExistentes, comparisonTable,
                 remainingCount, sortTimer, used>>

\* handleMapRightClick with the minimum off by one.
MapRightClickOffByOne ==
  /\ IF polygonMode /\ polygonPoints.n >= MinPoints - 1 /\ loads.geo # "ok"
     THEN /\ selectedDepartments' = <<>>
          /\ UNCHANGED <<mainList, divisionList, polygonMode, remainingCount>>
     ELSE IF polygonMode /\ polygonPoints.n >= MinPoints - 1
     THEN LET sel == SelectByPolygon(polygonPoints.box)
              r == AfterSelection(variant, Now, sel)
          IN /\ selectedDepartments' = sel
             /\ mainList' = r.main
             /\ divisionList' = r.divs
             /\ polygonMode' = FALSE
             /\ remainingCount' = IF Len(sel) > 0 THEN Len(r.main) ELSE remainingCount
     ELSE UNCHANGED <<selectedDepartments, mainList, divisionList, polygonMode,
                      remainingCount>>
  /\ lastOp' = [NoOp EXCEPT !.op = "rightClick",
                            !.batch = (polygonMode /\ polygonPoints.n >= MinPoints)]
  /\ UNCHANGED <<variant, loads, phase, partidosData, currentDivisionCount,
                 departmentGroups, currentRegionType, polygonPoints,
                 regionesExistentes, comparisonTable, sortTimer, deselectTimer, used>>

\* handleMapRightClick with deactivatePolygonMode inside the branch that
\* found departments.
MapRightClickStaysInMode ==
  /\ IF polygonMode /\ polygonPoints.n >= MinPoints /\ loads.geo # "ok"
     THEN /\ selectedDepartments' = <<>>
          /\ UNCHANGED <<mainList, divisionList, polygonMode, remainingCount>>
     ELSE IF polygonMode /\ polygonPoints.n >= MinPoints
     THEN LET sel == SelectByPolygon(polygonPoints.box)
              r == AfterSelection(variant, Now, sel)
          IN /\ selectedDepartments' = sel
             /\ mainList' = r.main
             /\ divisionList' = r.divs
             /\ polygonMode' = (Len(sel) = 0)
             /\ remainingCount' = IF Len(sel) > 0 THEN Len(r.main) ELSE remainingCount
     ELSE UNCHANGED <<selectedDepartments, mainList, divisionList, polygonMode,
                      remainingCount>>
  /\ lastOp' = [NoOp EXCEPT !.op = "rightClick",
                            !.batch = (polygonMode /\ polygonPoints.n >= MinPoints)]
  /\ UNCHANGED <<variant, loads, phase, partidosData, currentDivisionCount,
                 departmentGroups, currentRegionType, polygonPoints,
                 regionesExistentes, comparisonTable, sortTimer, deselectTimer, used>>

\* handleMapRightClick.  With geoJsonLayer undefined finalizePolygon throws
\* once it has emptied selectedDepartments.
MapRightClick ==
  /\ IF polygonMode /\ polygonPoints.n >= MinPoints /\ loads.geo # "ok"
     THEN /\ selectedDepartments' = <<>>
          /\ UNCHANGED <<mainList, divisionList, polygonMode, remainingCount>>
     ELSE IF polygonMode /\ polygonPoints.n >= MinPoints
     THEN LET sel == SelectByPolygon(polygonPoints.box)
              r == AfterSelection(variant, Now, sel)
          IN /\ selectedDepartments' = sel
             /\ mainList' = r.main
             /\ divisionList' = r.divs
             /\ polygonMode' = FALSE
             /\ remainingCount' = IF Len(sel) > 0 THEN Len(r.main) ELSE remainingCount
     ELSE UNCHANGED <<selectedDepartments, mainList, divisionList, polygonMode,
                      remainingCount>>
  /\ lastOp' = [NoOp EXCEPT !.op = "rightClick",
                            !.batch = (polygonMode /\ polygonPoints.n >= MinPoints)]
  /\ UNCHANGED <<variant, loads, phase, partidosData, currentDivisionCount,
                 departmentGroups, currentRegionType, polygonPoints,
                 regionesExistentes, comparisonTable, sortTimer, deselectTimer, used>>

(***************************************************************************)
(* Group names, predefined regions, reset                                  *)
(***************************************************************************)
CustomNames == {"Norte"}

\* The blur handler of a group's editable name.
EditName(max) ==
  /\ phase = "ready"
  /\ used < max
  /\ \E i \in 1..currentDivisionCount, text \in CustomNames :
       /\ departmentGroups' = [departmentGroups EXCEPT ![i].name = text]
       /\ lastOp' = [NoOp EXCEPT !.op = "editName", !.to = i]
  /\ currentRegionType' = "null"
  /\ used' = used + 1
  /\ UNCHANGED <<variant, loads, phase, partidosData, currentDivisionCount,
                 mainList, divisionList, selectedDepartments, polygonMode,
                 polygonPoints, regionesExistentes, remainingCount, sortTimer,
                 deselectTimer>>
  /\ comparisonTable' = updateComparisonTable(currentDivisionCount, departmentGroups',
                                              partidosData, Catalog(loads))

\* regiones_existentes.json, regions in file order.
RegionTable(tipo) ==
  CASE tipo = "secciones_electorales" ->
         << [name |-> "Seccion Tercera", members |-> <<"berisso">>],
            [name |-> "Seccion Primera", members |-> <<"Colon", "Azul">>] >>
    [] tipo = "regiones_sanitarias" ->
         << [name |-> "Region I", members |-> <<"Azul">>],
            [name |-> "Region II", members |-> <<>>],
            [name |-> "Region III", members |-> <<>>],
            [name |-> "Region IV", members |-> <<>>],
            [name |-> "Region V", members |-> <<"Colon">>],
            [name |-> "Region VI", members |-> <<>>],
            [name |-> "Region VII", members |-> <<>>],
            [name |-> "Region VIII", members |-> <<>>],
            [name |-> "Region IX", members |-> <<>>],
            [name |-> "Region X", members |-> <<>>],
            [name |-> "Region XI", members |-> <<"berisso">>],
            [name |-> "Region XII", members |-> <<>>] >>
    [] OTHER -> <<>>

RegionTypes == {"secciones_electorales", "regiones_sanitarias"}

\* A regiones_existentes.json with the key secciones_electorales only, whose
\* sections list two of the three departments.
PartialRegionTable(tipo) ==
  CASE tipo = "secciones_electorales" ->
         << [name |-> "Seccion Tercera", members |-> <<"berisso">>],
            [name |-> "Seccion Primera", members |-> <<"Colon">>] >>
    [] OTHER -> <<>>

\* What loadRegionesExistentes can leave in regionesExistentes, "null" apart.
RegionFiles == {"loaded", "partial"}

\* regionesExistentes[tipoRegion]; <<>> stands for undefined.
regionesDe(file, tipo) ==
  CASE file = "loaded" -> RegionTable(tipo)
    [] file = "partial" -> PartialRegionTable(tipo)
    [] OTHER -> <<>>

\* Region names in UTF-16 code unit order, the order of Array.prototype.sort.
RegionNameOrder ==
  << "Region I", "Region II", "Region III", "Region IV", "Region IX", "Region V",
     "Region VI", "Region VII", "Region VIII", "Region X", "Region XI",
     "Region XII", "Seccion Primera", "Seccion Tercera" >>

RegionRank(name) == CHOOSE k \in DOMAIN RegionNameOrder : RegionNameOrder[k] = name

\* Object.keys(regiones).sort(), each name with its member list.
SortedRegions(table) ==
  [k \in DOMAIN table |->
     table[CHOOSE j \in DOMAIN table :
             Cardinality({m \in DOMAIN table :
                            RegionRank(table[m].name) < RegionRank(table[j].name)}) = k - 1]]

\* loadExistingRegions, past its two guards.
loadExistingRegions(v, s, table) ==
  LET regiones == SortedRegions(table)
      r == initializeDivisionBoxes(v, s, Len(regiones))
      divs == [i \in DOMAIN r.divs |->
                 IF i \in DOMAIN regiones
                 THEN [k \in DOMAIN regiones[i].members |-> NewItem(regiones[i].members[k])]
                 ELSE r.divs[i]]
      named == [i \in DOMAIN r.groups |->
                  IF i \in DOMAIN regiones
                  THEN [r.groups[i] EXCEPT !.name = regiones[i].name]
                  ELSE r.groups[i]]
  IN [count |-> r.count, main |-> <<>>, divs |-> divs,
      groups |-> updateDepartmentGroups(named, divs)]

\* The change handler with a loadExistingRegions that records the region
\* type before it looks at the table.
SelectRegionTypeRecordsFirst(max) ==
  /\ phase = "ready"
  /\ used < max
  /\ \E tipo \in RegionTypes \cup {""} :
       /\ IF tipo = ""
          THEN /\ currentRegionType' = "null"
               /\ UNCHANGED <<currentDivisionCount, mainList, divisionList,
                              departmentGroups, comparisonTable, remainingCount>>
          ELSE IF regionesDe(regionesExistentes, tipo) = <<>>
               THEN /\ currentRegionType' = tipo
                    /\ UNCHANGED <<currentDivisionCount, mainList, divisionList,
                                   departmentGroups, comparisonTable, remainingCount>>
               ELSE LET r == loadExistingRegions(variant, Now,
                                                 regionesDe(regionesExistentes, tipo))
                    IN /\ currentRegionType' = tipo
                       /\ currentDivisionCount' = r.count
                       /\ mainList' = r.main
                       /\ divisionList' = r.divs
                       /\ departmentGroups' = r.groups
                       /\ comparisonTable' =
                            updateComparisonTable(r.count, r.groups, partidosData,
                                                  Catalog(loads))
                       /\ remainingCount' = Len(r.main)
       /\ lastOp' = [NoOp EXCEPT !.op = "regionLoad", !.unit = tipo,
                                 !.from = currentDivisionCount,
                                 !.batch = (regionesDe(regionesExistentes, tipo) # <<>>)]
  /\ used' = used + 1
  /\ UNCHANGED <<variant, loads, phase, partidosData, selectedDepartments,
                 polygonMode, polygonPoints, regionesExistentes, sortTimer,
                 deselectTimer>>

\* The change handler of the existing-regions selector.  lastOp.batch tells
\* whether loadExistingRegions passed its two guards.
SelectRegionType(max) ==
  /\ phase = "ready"
  /\ used < max
  /\ \E tipo \in RegionTypes \cup {""} :
       /\ IF tipo = ""
          THEN /\ currentRegionType' = "null"
               /\ UNCHANGED <<currentDivisionCount, mainList, divisionList,
                              departmentGroups, comparisonTable, remainingCount>>
          ELSE IF regionesDe(regionesExistentes, tipo) = <<>>
               THEN UNCHANGED <<currentRegionType, currentDivisionCount, mainList,
                                divisionList, departmentGroups, comparisonTable,
                                remainingCount>>
               ELSE LET r == loadExistingRegions(variant, Now,
                                                 regionesDe(regionesExistentes, tipo))
                    IN /\ currentRegionType' = tipo
                       /\ currentDivisionCount' = r.count
                       /\ mainList' = r.main
                       /\ divisionList' = r.divs
                       /\ departmentGroups' = r.groups
                       /\ comparisonTable' =
                            updateComparisonTable(r.count, r.groups, partidosData,
                                                  Catalog(loads))
                       /\ remainingCount' = Len(r.main)
       /\ lastOp' = [NoOp EXCEPT !.op = "regionLoad", !.unit = tipo,
                                 !.from = currentDivisionCount,
                                 !.batch = (regionesDe(regionesExistentes, tipo) # <<>>)]
  /\ used' = used + 1
  /\ UNCHANGED <<variant, loads, phase, partidosData, selectedDepartments,
                 polygonMode, polygonPoints, regionesExistentes, sortTimer,
                 deselectTimer>>

\* resetToInitialState without the call of populateDepartmentsList.
ResetToInitialStateKeepsPool(max) ==
  /\ phase = "ready"
  /\ used < max
  /\ polygonMode' = FALSE
  /\ lastOp' = [NoOp EXCEPT !.op = "reset", !.from = currentDivisionCount]
  /\ used' = used + 1
  /\ UNCHANGED <<variant, loads, phase, partidosData, polygonPoints,
                 regionesExistentes, sortTimer, deselectTimer>>
  /\ IF loads.geo = "ok"
     THEN /\ LET cleared ==
                   [count |-> currentDivisionCount,
                    main |-> mainList,
                    divs |-> [i \in DOMAIN divisionList |-> <<>>],
                    groups |-> [i \in DOMAIN departmentGroups |->
                                  [departmentGroups[i] EXCEPT !.departments = <<>>,
                                                              !.name = defaultName(i)]]]
                 r == initializeDivisionBoxes(variant, cleared, InitialCount)
             IN /\ currentDivisionCount' = r.count
                /\ mainList' = r.main
                /\ divisionList' = r.divs
                /\ departmentGroups' = r.groups
          /\ selectedDepartments' = <<>>
          /\ currentRegionType' = "null"
          /\ Refresh
     ELSE UNCHANGED <<currentDivisionCount, mainList, divisionList, departmentGroups,
                      selectedDepartments, currentRegionType, comparisonTable,
                      remainingCount>>

\* resetToInitialState.  With geoJsonLayer undefined clearSelection throws
\* right after polygon mode was left, and nothing else is done.
ResetToInitialState(max) ==
  /\ phase = "ready"
  /\ used < max
  /\ polygonMode' = FALSE
  /\ lastOp' = [NoOp EXCEPT !.op = "reset", !.from = currentDivisionCount]
  /\ used' = used + 1
  /\ UNCHANGED <<variant, loads, phase, partidosData, polygonPoints,
                 regionesExistentes, sortTimer, deselectTimer>>
  /\ IF loads.geo = "ok"
     THEN /\ LET cleared ==
                   [count |-> currentDivisionCount,
                    main |-> populateDepartmentsList,
                    divs |-> [i \in DOMAIN divisionList |-> <<>>],
                    groups |-> [i \in DOMAIN departmentGroups |->
                                  [departmentGroups[i] EXCEPT !.departments = <<>>,
                                                              !.name = defaultName(i)]]]
                 r == initializeDivisionBoxes(variant, cleared, InitialCount)
             IN /\ currentDivisionCount' = r.count
                /\ mainList' = r.main
                /\ divisionList' = r.divs
                /\ departmentGroups' = r.groups
          /\ selectedDepartments' = <<>>
          /\ currentRegionType' = "null"
          /\ Refresh
     ELSE UNCHANGED <<currentDivisionCount, mainList, divisionList, departmentGroups,
                      selectedDepartments, currentRegionType, comparisonTable,
                      remainingCount>>

(***************************************************************************)
(* Startup: the DOMContentLoaded handler starts the three loads and joins  *)
(* them with Promise.all                                                   *)
(***************************************************************************)
\* The page when the DOMContentLoaded handler has returned: the map exists,
\* the three fetches are in flight, no division box has been created.
InitStartup ==
  /\ variant \in Variants
  /\ loads = [geo |-> "pending", partidos |-> "pending", regiones |-> "pending"]
  /\ phase = "loading"
  /\ partidosData = "null"
  /\ comparisonTable = BlankTable
  /\ remainingCount = 0
  /\ currentDivisionCount = InitialCount
  /\ mainList = <<>>
  /\ divisionList = <<>>
  /\ departmentGroups = <<>>
  /\ selectedDepartments = <<>>
  /\ currentRegionType = "null"
  /\ polygonMode = FALSE
  /\ polygonPoints = NoPoints
  /\ regionesExistentes = "null"
  /\ sortTimer = FALSE
  /\ deselectTimer = FALSE
  /\ lastOp = NoOp
  /\ used = 0

\* The fetch of PBA.geojson settles.  src/script.js catches the error and
\* the promise is fulfilled; the split build rethrows and it is rejected.
LoadGeoJSON ==
  /\ loads.geo = "pending"
  /\ \E ok \in BOOLEAN :
       IF ok
       THEN /\ loads' = [loads EXCEPT !.geo = "ok"]
            /\ mainList' = populateDepartmentsList
       ELSE /\ loads' = [loads EXCEPT !.geo =
                           IF variant = "script" THEN "failed" ELSE "rejected"]
            /\ UNCHANGED mainList
  /\ UNCHANGED <<variant, phase, partidosData, currentDivisionCount, divisionList,
                 departmentGroups, selectedDepartments, currentRegionType,
                 polygonMode, polygonPoints, regionesExistentes, comparisonTable,
                 remainingCount, sortTimer, deselectTimer, lastOp, used>>

\* loadPartidosData with a catch that rethrows, as loadGeoJSON of the split
\* build does.
LoadPartidosDataRethrows ==
  /\ loads.partidos = "pending"
  /\ \E file \in PartidosFiles \cup {"null"} :
       /\ partidosData' = file
       /\ loads' = [loads EXCEPT !.partidos = IF file = "null" THEN "rejected" ELSE "ok"]
  /\ UNCHANGED <<variant, phase, currentDivisionCount, mainList, divisionList,
                 departmentGroups, selectedDepartments, currentRegionType,
                 polygonMode, polygonPoints, regionesExistentes, comparisonTable,
                 remainingCount, sortTimer, deselectTimer, lastOp, used>>

\* The fetch of datos/datos_partidos.json settles; the error is caught.
LoadPartidosData ==
  /\ loads.partidos = "pending"
  /\ \E file \in PartidosFiles \cup {"null"} :
       /\ partidosData' = file
       /\ loads' = [loads EXCEPT !.partidos = IF file = "null" THEN "failed" ELSE "ok"]
  /\ UNCHANGED <<variant, phase, currentDivisionCount, mainList, divisionList,
                 departmentGroups, selectedDepartments, currentRegionType,
                 polygonMode, polygonPoints, regionesExistentes, comparisonTable,
                 remainingCount, sortTimer, deselectTimer, lastOp, used>>

\* The fetch of regiones/regiones_existentes.json settles; the error is caught.
LoadRegionesExistentes ==
  /\ loads.regiones = "pending"
  /\ \E file \in RegionFiles \cup {"null"} :
       /\ regionesExistentes' = file
       /\ loads' = [loads EXCEPT !.regiones = IF file = "null" THEN "failed" ELSE "ok"]
  /\ UNCHANGED <<variant, phase, partidosData, currentDivisionCount, mainList,
                 divisionList, departmentGroups, selectedDepartments,
                 currentRegionType, polygonMode, polygonPoints, comparisonTable,
                 remainingCount, sortTimer, deselectTimer, lastOp, used>>

Settled(ld) == \A k \in DOMAIN ld : ld[k] \in {"ok", "failed"}

\* A then callback attached to the catalog load alone.
InitializeUIAfterCatalog ==
  /\ phase = "loading"
  /\ loads.geo \in {"ok", "failed"}
  /\ LET r == initializeDivisionBoxes(variant, Now, currentDivisionCount)
     IN /\ currentDivisionCount' = r.count
        /\ mainList' = r.main
        /\ divisionList' = r.divs
        /\ departmentGroups' = r.groups
  /\ phase' = "ready"
  /\ lastOp' = NoOp
  /\ UNCHANGED <<variant, loads, partidosData, selectedDepartments,
                 currentRegionType, polygonMode, polygonPoints, regionesExistentes,
                 sortTimer, deselectTimer, used>>
  /\ Refresh

\* The then callback of Promise.all: initializeDivisionBoxes, the handlers,
\* initializeComparisonTable and updateRemainingCount.
InitializeUI ==
  /\ phase = "loading"
  /\ Settled(loads)
  /\ LET r == initializeDivisionBoxes(variant, Now, currentDivisionCount)
     IN /\ currentDivisionCount' = r.count
        /\ mainList' = r.main
        /\ divisionList' = r.divs
        /\ departmentGroups' = r.groups
  /\ phase' = "ready"
  /\ lastOp' = NoOp
  /\ UNCHANGED <<variant, loads, partidosData, selectedDepartments,
                 currentRegionType, polygonMode, polygonPoints, regionesExistentes,
                 sortTimer, deselectTimer, used>>
  /\ Refresh

\* The catch callback of Promise.all.
InitializationFails ==
  /\ phase = "loading"
  /\ \E k \in DOMAIN loads : loads[k] = "rejected"
  /\ phase' = "aborted"
  /\ UNCHANGED <<variant, loads, partidosData, currentDivisionCount, mainList,
                 divisionList, departmentGroups, selectedDepartments,
                 currentRegionType, polygonMode, polygonPoints, regionesExistentes,
                 comparisonTable, remainingCount, sortTimer, deselectTimer, lastOp,
                 used>>

Next ==
  \/ ChangeDivisionCount(1..MaxCount, MaxOps)
  \/ DragEnd(MaxOps)
  \/ SortTimerFires
  \/ TogglePolygonMode(MaxOps)
  \/ MapClick(ClickPoints, MaxPoints)
  \/ DeselectTimerFires
  \/ MapRightClick
  \/ EditName(MaxOps)
  \/ SelectRegionType(MaxOps)
  \/ ResetToInitialState(MaxOps)

Spec == Init /\ [][Next]_vars

\* Drags and polygon selections only, one operation deeper.
NextMove ==
  \/ DragEnd(MaxMoves)
  \/ SortTimerFires
  \/ TogglePolygonMode(MaxMoves)
  \/ MapClick(ClickPoints, MaxPoints)
  \/ DeselectTimerFires
  \/ MapRightClick

SpecMove == Init /\ [][NextMove]_vars

\* Drags and polygon selections as in SpecMove, under their own bound.
NextSelect ==
  \/ DragEnd(MaxSelectOps)
  \/ SortTimerFires
  \/ TogglePolygonMode(MaxSelectOps)
  \/ MapClick(ClickPoints, MaxPoints)
  \/ DeselectTimerFires
  \/ MapRightClick

SpecSelect == Init /\ [][NextSelect]_vars

\* Every division count of the selector, with drags, name edits and region
\* loads.
NextResize ==
  \/ ChangeDivisionCount(1..DivisionLimit, MaxResizeOps)
  \/ DragEnd(MaxResizeOps)
  \/ SortTimerFires
  \/ EditName(MaxResizeOps)
  \/ SelectRegionType(MaxResizeOps)

SpecResize == Init /\ [][NextResize]_vars

\* Every kind of operation, one operation deeper than Spec.
NextDeep ==
  \/ ChangeDivisionCount(1..MaxCount, MaxDeepOps)
  \/ DragEnd(MaxDeepOps)
  \/ SortTimerFires
  \/ TogglePolygonMode(MaxDeepOps)
  \/ MapClick(ClickPoints, MaxPoints)
  \/ DeselectTimerFires
  \/ MapRightClick
  \/ EditName(MaxDeepOps)
  \/ SelectRegionType(MaxDeepOps)
  \/ ResetToInitialState(MaxDeepOps)

SpecDeep == Init /\ [][NextDeep]_vars

\* Count-change requests that the handler receives from outside the
\* selector's range as well.
NextRequests ==
  \/ ChangeDivisionCount(0..(DivisionLimit + 1), MaxOps)
  \/ DragEnd(MaxOps)
  \/ SortTimerFires
  \/ SelectRegionType(MaxOps)
  \/ ResetToInitialState(MaxOps)

SpecRequests == Init /\ [][NextRequests]_vars

\* The page from the start of the three loads, with the operations that
\* need no polygon once the engine is ready.  The deferred sort of the pool
\* is left to the specifications that start from the ready engine.
NextStartup ==
  \/ LoadGeoJSON
  \/ LoadPartidosData
  \/ LoadRegionesExistentes
  \/ InitializeUI
  \/ InitializationFails
  \/ MapClick(ClickPoints, MaxPoints)
  \/ DeselectTimerFires
  \/ ChangeDivisionCount(1..MaxCount, MaxStartOps)
  \/ DragEnd(MaxStartOps)
  \/ EditName(MaxStartOps)
  \/ SelectRegionType(MaxStartOps)

SpecStartup == InitStartup /\ [][NextStartup]_vars

\* The browser settles every fetch, with a response or with an error, and
\* runs the callbacks of a settled promise.
SpecStartupFair ==
  /\ SpecStartup
  /\ WF_vars(LoadGeoJSON)
  /\ WF_vars(LoadPartidosData)
  /\ WF_vars(LoadRegionesExistentes)
  /\ WF_vars(InitializeUI)
  /\ WF_vars(InitializationFails)

\* The engine at readiness for each attribute table the load can have left.
InitTable ==
  /\ variant \in Variants
  /\ loads \in {AllLoaded, [AllLoaded EXCEPT !.partidos = "failed"]}
  /\ phase = "ready"
  /\ partidosData \in (IF loads.partidos = "ok" THEN PartidosFiles ELSE {"null"})
  /\ comparisonTable =
       updateComparisonTable(InitialCount,
         [i \in 1..InitialCount |->
            [color |-> colorOf(variant, i), departments |-> <<>>, name |-> defaultName(i)]],
         partidosData, allDepartments)
  /\ remainingCount = Len(populateDepartmentsList)
  /\ currentDivisionCount = InitialCount
  /\ mainList = populateDepartmentsList
  /\ divisionList = [i \in 1..InitialCount |-> <<>>]
  /\ departmentGroups =
       [i \in 1..InitialCount |->
          [color |-> colorOf(variant, i), departments |-> <<>>, name |-> defaultName(i)]]
  /\ selectedDepartments = <<>>
  /\ currentRegionType = "null"
  /\ polygonMode = FALSE
  /\ polygonPoints = NoPoints
  /\ regionesExistentes = "loaded"
  /\ sortTimer = FALSE
  /\ deselectTimer = FALSE
  /\ lastOp = NoOp
  /\ used = 0

\* The operations that change the membership of the groups.
NextTable ==
  \/ DragEnd(MaxTableOps)
  \/ SortTimerFires
  \/ ChangeDivisionCount(1..MaxCount, MaxTableOps)
  \/ SelectRegionType(MaxTableOps)

SpecTable == InitTable /\ [][NextTable]_vars

\* The engine at readiness for each outcome of the catalog load after which
\* the then callback of Promise.all runs: the loaded catalog in both builds
\* and, in src/script.js, the failed one (no unit, no layer, geoJsonLayer
\* undefined).
InitPolygon ==
  /\ variant \in Variants
  /\ loads \in {AllLoaded} \cup (IF variant = "script"
                                 THEN {[AllLoaded EXCEPT !.geo = "failed"]}
                                 ELSE {})
  /\ phase = "ready"
  /\ partidosData = "tablaA"
  /\ comparisonTable =
       updateComparisonTable(InitialCount,
         [i \in 1..InitialCount |->
            [color |-> colorOf(variant, i), departments |-> <<>>, name |-> defaultName(i)]],
         "tablaA", Catalog(loads))
  /\ remainingCount = Len(Catalog(loads))
  /\ currentDivisionCount = InitialCount
  /\ mainList = [k \in DOMAIN Catalog(loads) |-> NewItem(Catalog(loads)[k].nam)]
  /\ divisionList = [i \in 1..InitialCount |-> <<>>]
  /\ departmentGroups =
       [i \in 1..InitialCount |->
          [color |-> colorOf(variant, i), departments |-> <<>>, name |-> defaultName(i)]]
  /\ selectedDepartments = <<>>
  /\ currentRegionType = "null"
  /\ polygonMode = FALSE
  /\ polygonPoints = NoPoints
  /\ regionesExistentes = "loaded"
  /\ sortTimer = FALSE
  /\ deselectTimer = FALSE
  /\ lastOp = NoOp
  /\ used = 0

\* The polygon tool alone, with as many clicks as handleMapClick accepts.
NextPolygon ==
  \/ TogglePolygonMode(MaxPolygonOps)
  \/ MapClick(ClickPoints, PointLimit + 1)
  \/ DeselectTimerFires
  \/ MapRightClick

SpecPolygon == InitPolygon /\ [][NextPolygon]_vars

\* The polygon tool of a user who leaves the 10 ms of the deferred deselection
\* between two clicks: a pending callback is always the last click's.
NextClicks ==
  \/ TogglePolygonMode(MaxPolygonOps)
  \/ (~deselectTimer /\ MapClick(ClickPoints, MaxPoints))
  \/ DeselectTimerFires
  \/ MapRightClick

SpecClicks == Init /\ [][NextClicks]_vars

\* Drags first, then the polygon tool: a drop into the pool schedules the
\* sort of the pool and a polygon selection can come before it runs.
NextSort ==
  \/ DragEnd(MaxSortDrags)
  \/ SortTimerFires
  \/ TogglePolygonMode(MaxSortOps)
  \/ MapClick(ClickPoints, MinPoints)
  \/ DeselectTimerFires
  \/ MapRightClick

SpecSort == Init /\ [][NextSort]_vars

\* The clicks that land on a department.
InsideClicks == {pt \in ClickPoints : DepartmentAt(pt) # ""}

\* No deferred callback (the 10 ms deselection, the 100 ms sort of the pool)
\* is pending.
Calm == ~sortTimer /\ ~deselectTimer

\* The operations that move units, by a user who starts none while a
\* callback is pending and who draws polygons with clicks on departments.
NextCalm ==
  \/ Calm /\ ChangeDivisionCount(1..(InitialCount + 1), MaxCalmOps)
  \/ Calm /\ DragEnd(MaxCalmOps)
  \/ Calm /\ TogglePolygonMode(MaxCalmOps)
  \/ Calm /\ MapClick(InsideClicks, MinPoints)
  \/ Calm /\ MapRightClick
  \/ Calm /\ SelectRegionType(MaxCalmOps)
  \/ Calm /\ ResetToInitialState(MaxCalmOps)
  \/ SortTimerFires
  \/ DeselectTimerFires

SpecCalm == Init /\ [][NextCalm]_vars

(***************************************************************************)
(* Views of the partition                                                  *)
(***************************************************************************)
CountIn(names, n) == Cardinality({k \in DOMAIN names : names[k] = n})

PoolCount(n) == CountIn(Names(mainList), n)

GroupCount(i, n) == CountIn(departmentGroups[i].departments, n)

RECURSIVE SumGroups(_, _, _)
SumGroups(groups, i, n) ==
  IF i = 0 THEN 0
  ELSE (IF i \in DOMAIN groups THEN CountIn(groups[i].departments, n) ELSE 0)
       + SumGroups(groups, i - 1, n)

InGroups(n) == SumGroups(departmentGroups, DivisionLimit + 1, n)

Occurrences(n) == PoolCount(n) + InGroups(n)

\* The set of places a unit is at: POOL and/or group indexes.
LocationsOf(main, groups, n) ==
  (IF CountIn(Names(main), n) > 0 THEN {POOL} ELSE {})
    \cup {i \in DOMAIN groups : CountIn(groups[i].departments, n) > 0}

PaletteColor(v, i) == divisionColors(v)[((i - 1) % Len(divisionColors(v))) + 1]

IsSortedPool(list) ==
  \A k \in 1..(Len(list) - 1) :
    localeCompare(toUpperCase(list[k].nam), toUpperCase(list[k + 1].nam)) <= 0

TypeOK ==
  /\ variant \in Variants
  /\ currentDivisionCount \in 0..(DivisionLimit + 1)
  /\ phase \in {"loading", "ready", "aborted"}
  /\ \A k \in DOMAIN loads : loads[k] \in {"pending", "ok", "failed", "rejected"}
  /\ partidosData \in PartidosFiles \cup {"null"}
  /\ regionesExistentes \in RegionFiles \cup {"null"}
  /\ phase = "ready" => DOMAIN divisionList = 1..currentDivisionCount
  /\ phase = "ready" => DOMAIN departmentGroups = 1..currentDivisionCount
  /\ remainingCount \in 0..(2 * Len(PBAFeatures))
  /\ \A k \in DOMAIN mainList : mainList[k].nam \in CatalogNames
  /\ \A k \in DOMAIN selectedDepartments : selectedDepartments[k] \in CatalogNames
  /\ polygonMode \in BOOLEAN /\ sortTimer \in BOOLEAN /\ deselectTimer \in BOOLEAN

(***************************************************************************)
(* Claims                                                                  *)
(***************************************************************************)

\* C1: in every reachable state every catalog unit appears exactly once in
\* the pool and the groups 1..K taken together.
C1_PartitionInvariant ==
  /\ DOMAIN departmentGroups = 1..currentDivisionCount
  /\ \A n \in CatalogNames : Occurrences(n) = 1

\* C2: in every state reached by drags and batch moves, no unit is a member
\* of two groups or twice a member of one group.
C2_GroupsDisjoint == \A n \in CatalogNames : InGroups(n) <= 1

\* C3: a change of the division count between counts in 1..12 leaves every
\* group with index up to min(K, newK) with the same members in the same
\* order and the same color in the store, and the rebuilt list of the group
\* shows those members in that order.
C3_ResizePreservesGroups ==
  [][(lastOp'.op = "resize" /\ lastOp'.to \in 1..DivisionLimit) =>
       \A i \in 1..Min(currentDivisionCount, currentDivisionCount') :
         /\ departmentGroups'[i].departments = departmentGroups[i].departments
         /\ Names(divisionList'[i]) = departmentGroups[i].departments
         /\ departmentGroups'[i].color = departmentGroups[i].color]_vars

\* A resize has just kept a group of two different members.
C3_Witness ==
  /\ lastOp.op = "resize"
  /\ lastOp.from # lastOp.to
  /\ \E i \in 1..Min(lastOp.from, lastOp.to) :
       /\ Len(departmentGroups[i].departments) = 2
       /\ departmentGroups[i].departments[1] # departmentGroups[i].departments[2]

\* C4: a change of the division count leaves every group with index up to
\* min(K, newK) with the name it had.
C4_ResizeKeepsNames ==
  [][lastOp'.op = "resize" =>
       \A i \in 1..Min(currentDivisionCount, currentDivisionCount') :
         departmentGroups'[i].name = departmentGroups[i].name]_vars

\* C5: after a reduction of the division count every member of a dissolved
\* group is in the pool exactly once and in no group, and every unit that was
\* in the pool still is.
C5_ReductionReturnsToPool ==
  [][(lastOp'.op = "resize" /\ currentDivisionCount' < currentDivisionCount) =>
       \A n \in CatalogNames :
         /\ (\E i \in (currentDivisionCount' + 1)..currentDivisionCount :
               CountIn(departmentGroups[i].departments, n) > 0)
              => /\ CountIn(Names(mainList'), n) = 1
                 /\ SumGroups(departmentGroups', DivisionLimit + 1, n) = 0
         /\ CountIn(Names(mainList), n) > 0 => CountIn(Names(mainList'), n) > 0]_vars

\* C6: after an increase of the division count K is the requested count,
\* every new group is empty, has the palette color of its index and its
\* default name, and the pool is as it was.
C6_IncreaseCreatesFreshGroups ==
  [][(lastOp'.op = "resize" /\ lastOp'.to > currentDivisionCount) =>
       /\ currentDivisionCount' = lastOp'.to
       /\ \A i \in (currentDivisionCount + 1)..currentDivisionCount' :
            /\ departmentGroups'[i].departments = <<>>
            /\ divisionList'[i] = <<>>
            /\ departmentGroups'[i].color = PaletteColor(variant, i)
            /\ departmentGroups'[i].name = defaultName(i)
       /\ mainList' = mainList]_vars

\* C7: K always lies in 1..12, and a count-change request outside 1..12
\* changes neither K nor the lists nor the store.
C7_CountInRange ==
  [][/\ currentDivisionCount' \in 1..DivisionLimit
     /\ (lastOp'.op = "resize" /\ lastOp'.to \notin 1..DivisionLimit)
          => UNCHANGED <<currentDivisionCount, mainList, divisionList,
                         departmentGroups>>]_vars

\* C8: in every reachable state the color of group i, for i in 1..K, is the
\* palette entry at position (i-1) mod paletteSize.
C8_PaletteColors ==
  \A i \in 1..currentDivisionCount :
    i \in DOMAIN departmentGroups =>
      departmentGroups[i].color = PaletteColor(variant, i)

\* C9: after any completed mutation the pool lists its units in
\* case-insensitive ascending order of name.
C9_PoolSorted == IsSortedPool(mainList)

\* C10: a drag that moves a single unit u to d leaves u at d and nowhere
\* else, every other unit where it was, and K, the names and the colors
\* unchanged.
C10_SingleMove ==
  [][(lastOp'.op = "drag" /\ ~lastOp'.batch) =>
       /\ LocationsOf(mainList', departmentGroups', lastOp'.unit) = {lastOp'.to}
       /\ \A n \in CatalogNames \ {lastOp'.unit} :
            LocationsOf(mainList', departmentGroups', n)
              = LocationsOf(mainList, departmentGroups, n)
       /\ currentDivisionCount' = currentDivisionCount
       /\ \A i \in 1..currentDivisionCount :
            /\ departmentGroups'[i].name = departmentGroups[i].name
            /\ departmentGroups'[i].color = departmentGroups[i].color]_vars
\* The partition as the pool's names in display order and every group's
\* members in order.
PartitionOf(main, groups) ==
  <<Names(main), [i \in DOMAIN groups |-> groups[i].departments]>>

\* C11: a single-unit drag of u to d that directly follows a single-unit drag
\* of u to d leaves the pool and the members and member order of every group
\* as the first drag left them.
C11_MoveIdempotent ==
  [][(/\ lastOp.op = "drag" /\ ~lastOp.batch
      /\ lastOp'.op = "drag" /\ ~lastOp'.batch
      /\ lastOp'.unit = lastOp.unit /\ lastOp'.to = lastOp.to)
       => PartitionOf(mainList', departmentGroups')
            = PartitionOf(mainList, departmentGroups)]_vars

\* C12: a drag that moves the selection S to G leaves every unit of S at G
\* exactly once and nowhere else, and every other unit where it was.
C12_BatchMove ==
  [][(lastOp'.op = "drag" /\ lastOp'.batch) =>
       /\ \A k \in DOMAIN selectedDepartments :
            LET n == selectedDepartments[k]
            IN /\ LocationsOf(mainList', departmentGroups', n) = {lastOp'.to}
               /\ CountIn(Names(mainList'), n)
                    + SumGroups(departmentGroups', DivisionLimit + 1, n) = 1
       /\ \A n \in CatalogNames :
            ~InSelection(selectedDepartments, n) =>
              LocationsOf(mainList', departmentGroups', n)
                = LocationsOf(mainList, departmentGroups, n)]_vars

\* C13: a drag whose unit is in the non-empty selection leaves every selected
\* unit at the drop destination and the selection empty; a drag whose unit is
\* not in the selection leaves every other unit where it was.
C13_SelectionMovesTogether ==
  [][lastOp'.op = "drag" =>
       IF InSelection(selectedDepartments, lastOp'.unit)
       THEN /\ \A k \in DOMAIN selectedDepartments :
                 lastOp'.to \in LocationsOf(mainList', departmentGroups',
                                            selectedDepartments[k])
            /\ selectedDepartments' = <<>>
       ELSE \A n \in CatalogNames \ {lastOp'.unit} :
              LocationsOf(mainList', departmentGroups', n)
                = LocationsOf(mainList, departmentGroups, n)]_vars

\* C14: after every drag, of a single unit or of the selection, the
\* selection is empty.
C14_SelectionClearedByMove ==
  [][lastOp'.op = "drag" => selectedDepartments' = <<>>]_vars

\* C15: finalizing a polygon leaves every catalog unit at the locations it
\* was at, and the pool and every group with the same set of units.
C15_SelectionKeepsPartition ==
  [][(lastOp'.op \in {"rightClick", "mapClick"}) =>
       /\ \A n \in CatalogNames :
            LocationsOf(mainList', departmentGroups', n)
              = LocationsOf(mainList, departmentGroups, n)
       /\ {mainList'[k].nam : k \in DOMAIN mainList'}
            = {mainList[k].nam : k \in DOMAIN mainList}
       /\ \A i \in DOMAIN divisionList :
            {divisionList'[i][k].nam : k \in DOMAIN divisionList'[i]}
              = {divisionList[i][k].nam : k \in DOMAIN divisionList[i]}]_vars
\* The names of the units whose centre lies in the rectangle box.
CentroidsInside(box) ==
  {allDepartments[k].nam : k \in {j \in DOMAIN allDepartments :
                                    BoundsContain(box, getCenter(allDepartments[j].ext))}}

\* C16: a right click that finalizes a polygon of at least 3 points leaves
\* as the selection exactly the units whose centre lies in the bounding
\* rectangle of the points, each once.
C16_PolygonSelectsCentroids ==
  [][(lastOp'.op = "rightClick" /\ lastOp'.batch) =>
       /\ {selectedDepartments'[k] : k \in DOMAIN selectedDepartments'}
            = CentroidsInside(polygonPoints.box)
       /\ Len(selectedDepartments') = Cardinality(CentroidsInside(polygonPoints.box))]_vars

\* A polygon has just selected Azul and berisso and left out Colon, whose
\* bounds reach into the rectangle.
C16_Witness ==
  /\ lastOp.op = "rightClick" /\ lastOp.batch
  /\ selectedDepartments = <<"Azul", "berisso">>

\* C17: a right click on a polygon of fewer than 3 points changes neither
\* the selection, the lists, the store, K, the points nor the polygon mode.
C17_TooFewPointsRejected ==
  [][(lastOp'.op = "rightClick" /\ polygonPoints.n < MinPoints) =>
       UNCHANGED <<selectedDepartments, mainList, divisionList, departmentGroups,
                   currentDivisionCount, polygonPoints, polygonMode>>]_vars

\* A right click has just been refused in polygon mode with 2 points.
C17_Witness ==
  /\ lastOp.op = "rightClick" /\ ~lastOp.batch
  /\ polygonMode /\ polygonPoints.n = MinPoints - 1

C19_ClearSelection ==
  [][/\ lastOp'.op = "deselectTimer" =>
          /\ selectedDepartments' = <<>>
          /\ UNCHANGED <<currentDivisionCount, mainList, divisionList, departmentGroups>>
          /\ selectedDepartments = <<>> =>
               UNCHANGED <<variant, loads, phase, partidosData, currentDivisionCount, mainList, divisionList,
                           departmentGroups, selectedDepartments, currentRegionType,
                           polygonMode, polygonPoints, regionesExistentes,
                           sortTimer, used>>
     /\ LET c == clearSelectedClass(Now)
        IN /\ Names(c.main) = Names(mainList)
           /\ \A i \in DOMAIN divisionList : Names(c.divs[i]) = Names(divisionList[i])
           /\ c.groups = departmentGroups /\ c.count = currentDivisionCount
           /\ clearSelectedClass(c) = c]_vars

\* The deferred clearSelection has just emptied a selection while a unit
\* was in a group.
C19_Witness ==
  /\ lastOp.op = "deselectTimer" /\ lastOp.batch
  /\ selectedDepartments = <<>>
  /\ \E i \in DOMAIN departmentGroups : departmentGroups[i].departments # <<>>

LoadedUnits(ld) ==
  IF ld.geo = "ok" THEN {PBAFeatures[k].nam : k \in DOMAIN PBAFeatures} ELSE {}

\* C21: at the step that makes the engine ready K is 3, the groups 1..3 exist
\* and are empty, every unit of the loaded catalog is in the pool exactly
\* once, the pool is in case-insensitive name order and the selection is
\* empty.
C21_ReadyState ==
  [][phase # "ready" /\ phase' = "ready" =>
       /\ currentDivisionCount' = 3
       /\ DOMAIN departmentGroups' = 1..3
       /\ DOMAIN divisionList' = 1..3
       /\ \A i \in 1..3 :
            departmentGroups'[i].departments = <<>> /\ divisionList'[i] = <<>>
       /\ \A n \in LoadedUnits(loads') : CountIn(Names(mainList'), n) = 1
       /\ Len(mainList') = Cardinality(LoadedUnits(loads'))
       /\ IsSortedPool(mainList')
       /\ selectedDepartments' = <<>>]_vars

\* The engine has just become ready with the catalog in the pool, although
\* the attribute table could not be loaded.
C21_Witness ==
  /\ phase = "ready" /\ used = 0 /\ lastOp.op = "init"
  /\ loads.geo = "ok" /\ loads.partidos = "failed"
  /\ Len(mainList) = Len(PBAFeatures)
  /\ remainingCount = Len(PBAFeatures)

\* The units a group holds.
Members(groups, i) == {groups[i].departments[k] : k \in DOMAIN groups[i].departments}

\* The value the attribute table has for a unit under the unit's catalog
\* code; 0 when there is none.
ValueOf(pd, catalog, n, variable) ==
  LET codigoCde == obtenerCodigoCdePorNombre(catalog, n)
  IN IF TieneDato(pd, codigoCde, variable) THEN datos(pd)[codigoCde][variable] ELSE 0

RECURSIVE SumOverUnits(_, _, _, _)
SumOverUnits(pd, catalog, units, variable) ==
  IF units = {} THEN 0
  ELSE LET n == CHOOSE x \in units : TRUE
       IN ValueOf(pd, catalog, n, variable)
            + SumOverUnits(pd, catalog, units \ {n}, variable)

\* The number a cell of the table shows.
RECURSIVE Valor(_)
Valor(cell) ==
  IF cell = <<>> THEN 0
  ELSE Valor(SubSeq(cell, 1, Len(cell) - 1)) * 1000 + cell[Len(cell)]

\* C22: the row of every group reports as count the number of the group's
\* members and, when there is an attribute table, as area and population the
\* sums of the table's values over the members' catalog codes.
C22_RowTotals ==
  phase = "ready" =>
    \A i \in 1..currentDivisionCount :
      /\ comparisonTable.cantidad[i] = Cardinality(Members(departmentGroups, i))
      /\ HasDatos(partidosData) =>
           /\ Valor(comparisonTable.superficie[i]) =
                SumOverUnits(partidosData, Catalog(loads),
                             Members(departmentGroups, i), "superficie")
           /\ Valor(comparisonTable.poblacion[i]) =
                SumOverUnits(partidosData, Catalog(loads),
                             Members(departmentGroups, i), "poblacion_total")

RECURSIVE SumOverList(_, _, _, _)
SumOverList(pd, catalog, members, variable) ==
  IF members = <<>> THEN 0
  ELSE ValueOf(pd, catalog, Head(members), variable)
         + SumOverList(pd, catalog, Tail(members), variable)

\* C23: with an attribute table, the sum reported for a group is the sum of
\* the values of the members that have an entry, each at its full value; the
\* members without an entry add nothing and raise no error, and the sum is 0
\* when no member has an entry.
C23_MissingDataSkipped ==
  phase = "ready" /\ HasDatos(partidosData) =>
    \A i \in 1..currentDivisionCount :
      \A variable \in {"superficie", "poblacion_total"} :
        LET members == departmentGroups[i].departments
            withData == SelectSeq(members,
                          LAMBDA n : ValueOf(partidosData, Catalog(loads), n, variable) > 0)
            total == calcularTotalDivision(partidosData, Catalog(loads),
                                           departmentGroups, i, variable)
            cell == IF variable = "superficie" THEN comparisonTable.superficie[i]
                    ELSE comparisonTable.poblacion[i]
        IN /\ ~TotalFaults(partidosData, departmentGroups, i)
           /\ ~comparisonTable.falla
           /\ total = SumOverList(partidosData, Catalog(loads), withData, variable)
           /\ withData = <<>> => total = 0
           /\ Valor(cell) = total

\* A group holds Colon, which the table lacks, and Azul, which has area 100
\* and population 50: the row shows 100 and 50.
C23_Witness ==
  /\ phase = "ready" /\ partidosData = "tablaA"
  /\ \E i \in 1..currentDivisionCount :
       /\ Members(departmentGroups, i) = {"Colon", "Azul"}
       /\ Len(departmentGroups[i].departments) = 2
       /\ comparisonTable.superficie[i] = <<100>>
       /\ comparisonTable.poblacion[i] = <<50>>

\* The density a cell of the table shows, in tenths.
Decimas(cell) == 10 * Valor(cell.entero) + cell.decimal

\* C24 (as stated): the density of a group is the quotient of its population
\* total by its area total when both are greater than 0, and "0.0" in every
\* other case.
C24_ExactQuotient ==
  phase = "ready" =>
    \A i \in 1..currentDivisionCount :
      IF HasDatos(partidosData)
      THEN LET p == Valor(comparisonTable.poblacion[i])
               s == Valor(comparisonTable.superficie[i])
           IN IF p > 0 /\ s > 0
              THEN Decimas(comparisonTable.densidad[i]) * s = 10 * p
              ELSE comparisonTable.densidad[i] = formatearDensidad(Sentinel)
      ELSE calcularDensidadDivision(partidosData, Catalog(loads),
                                    departmentGroups, i) = Sentinel

\* C24 (amended): the density of a group is the quotient of its population
\* total by its area total rounded to one decimal place when both totals are
\* greater than 0, and "0.0" in every other case; no division by zero is
\* performed.
C24_RoundedQuotient ==
  phase = "ready" =>
    \A i \in 1..currentDivisionCount :
      IF HasDatos(partidosData)
      THEN LET p == Valor(comparisonTable.poblacion[i])
               s == Valor(comparisonTable.superficie[i])
               d == Decimas(comparisonTable.densidad[i])
           IN IF p > 0 /\ s > 0
              THEN /\ 2 * (10 * p - d * s) <= s
                   /\ 2 * (d * s - 10 * p) <= s
              ELSE comparisonTable.densidad[i] = formatearDensidad(Sentinel)
      ELSE calcularDensidadDivision(partidosData, Catalog(loads),
                                    departmentGroups, i) = Sentinel

\* A group of population 1000 and area 3000 shows the density "0.3".
C24_Witness ==
  /\ phase = "ready" /\ partidosData = "tablaB"
  /\ \E i \in 1..currentDivisionCount :
       /\ comparisonTable.poblacion[i] = <<1, 0>>
       /\ comparisonTable.superficie[i] = <<3, 0>>
       /\ comparisonTable.densidad[i] = [entero |-> <<0>>, decimal |-> 3]

\* C25: in every state of the ready engine, recomputing the aggregates of the
\* groups 1..K raises no fault; when the attribute dataset was never loaded
\* every sum is 0, every density is "0.0", the table shows the message row in
\* place of the data rows, and the row of counts still reports the number of
\* entries of every group.
C25_AggregatesNeverFault ==
  phase = "ready" =>
    LET t == updateComparisonTable(currentDivisionCount, departmentGroups,
                                   partidosData, Catalog(loads))
    IN /\ \A i \in 1..currentDivisionCount :
            ~TotalFaults(partidosData, departmentGroups, i)
       /\ ~t.falla
       /\ DOMAIN t.nombres = 1..currentDivisionCount
       /\ ~HasDatos(partidosData) =>
            /\ \A i \in 1..currentDivisionCount :
                 /\ calcularTotalDivision(partidosData, Catalog(loads),
                                          departmentGroups, i, "superficie") = 0
                 /\ calcularTotalDivision(partidosData, Catalog(loads),
                                          departmentGroups, i, "poblacion_total") = 0
                 /\ calcularDensidadDivision(partidosData, Catalog(loads),
                                             departmentGroups, i) = Sentinel
            /\ t.mensaje
            /\ t.superficie = <<>> /\ t.poblacion = <<>> /\ t.densidad = <<>>
            /\ DOMAIN t.cantidad = 1..currentDivisionCount
            /\ \A i \in 1..currentDivisionCount :
                 t.cantidad[i] = Len(departmentGroups[i].departments)

\* The attribute dataset never arrived, a unit was moved into a group, and the
\* table shows the message row and the count of that group.
C25_Witness ==
  /\ phase = "ready" /\ partidosData = "null" /\ lastOp.op # "init"
  /\ comparisonTable.mensaje
  /\ \E i \in 1..currentDivisionCount :
       /\ departmentGroups[i].departments # <<>>
       /\ comparisonTable.cantidad[i] >= 1

\* The groups whose region lists the unit n.
RegionsListing(regiones, n) ==
  {i \in DOMAIN regiones :
     \E k \in DOMAIN regiones[i].members : regiones[i].members[k] = n}

\* C26: a region load that passes its guards leaves K at the number n of
\* regions, names group i after the i-th region in ascending name order, puts
\* every listed unit in the group of its region, leaves every loaded unit
\* listed in no region where initializeDivisionBoxes(n) put it, and leaves
\* every loaded unit at exactly one place.
C26_RegionLoadAsMoves ==
  [][lastOp'.op = "regionLoad" /\ lastOp'.batch =>
       LET regiones == SortedRegions(regionesDe(regionesExistentes, lastOp'.unit))
           resized == initializeDivisionBoxes(variant, Now, Len(regiones))
       IN /\ currentDivisionCount' = Len(regiones)
          /\ DOMAIN departmentGroups' = 1..Len(regiones)
          /\ \A i \in 1..Len(regiones) : departmentGroups'[i].name = regiones[i].name
          /\ \A n \in LoadedUnits(loads) :
               /\ LocationsOf(mainList', departmentGroups', n) =
                    IF RegionsListing(regiones, n) # {}
                    THEN RegionsListing(regiones, n)
                    ELSE LocationsOf(resized.main, resized.groups, n)
               /\ CountIn(Names(mainList'), n)
                    + SumGroups(departmentGroups', DivisionLimit + 1, n) = 1
  ]_vars

\* C27: a region-load request made when the region table was not loaded, or
\* for a region type the table has no key for, leaves K, the pool, the lists
\* and the store of the groups (members and names), the selection and the
\* current region type unchanged.
C27_RegionRequestWithoutTable ==
  [][/\ lastOp'.op = "regionLoad"
     /\ lastOp'.unit \in RegionTypes
     /\ \/ regionesExistentes = "null"
        \/ regionesDe(regionesExistentes, lastOp'.unit) = <<>>
     => UNCHANGED <<currentDivisionCount, mainList, divisionList, departmentGroups,
                    selectedDepartments, currentRegionType>>
  ]_vars

\* The table arrived without the key regiones_sanitarias and the user asked
\* for regiones_sanitarias: three empty groups, every unit in the pool and no
\* region type, as before the request.
C27_Witness ==
  /\ phase = "ready" /\ regionesExistentes = "partial"
  /\ lastOp.op = "regionLoad" /\ lastOp.unit = "regiones_sanitarias" /\ ~lastOp.batch
  /\ currentRegionType = "null"
  /\ currentDivisionCount = 3
  /\ Len(mainList) = Len(PBAFeatures)

\* C28: the engine becomes ready only when the catalog load, the
\* attribute-table load and the region-table load have all settled, and until
\* it is ready nothing changes K, the groups or the selection; the pool changes
\* only when the catalog load fills it with the units of the catalog.
C28_ReadyAfterLoads ==
  [][/\ phase' = "ready" => \A k \in DOMAIN loads' : loads'[k] # "pending"
     /\ phase' # "ready" =>
          /\ UNCHANGED <<currentDivisionCount, divisionList, departmentGroups,
                         selectedDepartments>>
          /\ departmentGroups = <<>>
          /\ \/ mainList' = mainList
             \/ /\ loads.geo = "pending" /\ loads'.geo = "ok"
                /\ mainList = <<>>
                /\ mainList' = populateDepartmentsList
  ]_vars

\* The engine got ready after the catalog and the attribute table arrived and
\* the load of the region table failed.
C28_Witness ==
  /\ phase = "ready" /\ used = 0
  /\ loads = [geo |-> "ok", partidos |-> "ok", regiones |-> "failed"]
  /\ DOMAIN departmentGroups = 1..InitialCount
  /\ Len(mainList) = Len(PBAFeatures)

\* C29: once the catalog load has succeeded the engine eventually becomes
\* ready, whatever the outcome of the attribute-table load and of the
\* region-table load.
C29_ReadyDespiteFailedTables == (loads.geo = "ok") ~> (phase = "ready")

\* The engine is ready although both the attribute-table load and the
\* region-table load failed.
C29_Witness ==
  /\ phase = "ready"
  /\ loads = [geo |-> "ok", partidos |-> "failed", regiones |-> "failed"]
  /\ partidosData = "null" /\ regionesExistentes = "null"
  /\ comparisonTable.mensaje

\* C30: a deferred callback (the pool's sort timer, the map click's deselect
\* timer) changes neither the selection nor the units the pool holds.
C30_NoDeferredMutation ==
  [][lastOp'.op \in {"sortTimer", "deselectTimer"} =>
       /\ selectedDepartments' = selectedDepartments
       /\ \A n \in CatalogNames :
            CountIn(Names(mainList'), n) = CountIn(Names(mainList), n)
  ]_vars

\* The recolourings of map layers one run of handleDepartmentMove performs,
\* in order: the layers restyled and the store updateDepartmentStyle read.
\* before is the store at the start of the handler, after the store that
\* updateDepartmentGroups leaves.  src/script.js restyles the selected layers
\* in clearSelection, at the end of moveSelectedDepartments; the split build
\* calls updateMapColors in clearAllSelections on every drag.
MapColorPasses(v, batch, sel, before, after) ==
  (IF v = "script"
   THEN IF batch
        THEN << [layers |-> {sel[k] : k \in DOMAIN sel}, groups |-> before] >>
        ELSE << >>
   ELSE << [layers |-> CatalogNames, groups |-> before] >>)
  \o << [layers |-> CatalogNames, groups |-> after] >>

\* The calls of updateComparisonTable in one run of handleDepartmentMove,
\* each with the store it read.
StatisticsPasses(v, before, after) == << [groups |-> after] >>

\* C31: in a batch move the map colours and the group statistics are each
\* recomputed exactly once, from the store updateDepartmentGroups built after
\* the last relocation.
C31_BatchRecomputedOnce ==
  [][lastOp'.op = "drag" /\ lastOp'.batch =>
       LET colors == MapColorPasses(variant, TRUE, selectedDepartments,
                                    departmentGroups, departmentGroups')
           stats == StatisticsPasses(variant, departmentGroups, departmentGroups')
       IN /\ Len(colors) = 1
          /\ \A k \in DOMAIN colors : colors[k].groups = departmentGroups'
          /\ Len(stats) = 1
          /\ \A k \in DOMAIN stats : stats[k].groups = departmentGroups'
          /\ comparisonTable' =
               updateComparisonTable(currentDivisionCount', departmentGroups',
                                     partidosData, Catalog(loads))
  ]_vars

\* The selected units of a list come before every other unit of it.
SelectedFirst(list, sel) ==
  \A j \in DOMAIN list, k \in DOMAIN list :
    j < k /\ InSelection(sel, list[k].nam) => InSelection(sel, list[j].nam)

SameUnits(a, b) ==
  \A n \in CatalogNames : CountIn(Names(a), n) = CountIn(Names(b), n)

\* C32: when the finalization of a polygon selects at least one unit, the
\* selected units of every list (the pool and each group) end ahead of the
\* unselected units of that list, and every list holds the units it held.
C32_SelectionMovesToFront ==
  [][/\ lastOp'.op \in {"rightClick", "mapClick"}
     /\ polygonMode /\ ~polygonMode'
     /\ selectedDepartments' # <<>>
     => /\ SelectedFirst(mainList', selectedDepartments')
        /\ SameUnits(mainList', mainList)
        /\ \A i \in 1..currentDivisionCount :
             /\ SelectedFirst(divisionList'[i], selectedDepartments')
             /\ SameUnits(divisionList'[i], divisionList[i])
  ]_vars

(***************************************************************************)
(* Selection and deferred deselection                                      *)
(***************************************************************************)
\* A polygon has just been finalized into a non-empty selection.
JustFinalized ==
  /\ lastOp.op \in {"rightClick", "mapClick"}
  /\ lastOp.batch
  /\ selectedDepartments # <<>>

\* C33: a non-empty selection that finalizing a polygon has just produced is
\* not emptied by a deselect callback that a map click scheduled before the
\* finalization or with it (the 100th click, which finalizes on its own,
\* included): the step of that callback leaves the selection as it was.
C33_SelectionSurvivesStaleCallback ==
  [][JustFinalized /\ deselectTimer /\ lastOp'.op = "deselectTimer"
       => selectedDepartments' = selectedDepartments]_vars

\* The department under the click of the last map click is in the selection.
ClickedMember(op, sel) == op.unit # "" /\ InSelection(sel, op.unit)

\* C34: while a selection exists, a click on a selected department leaves
\* it intact once the callbacks of the click have run, and a click on a
\* department outside the selection, or on no department, has emptied it by
\* then.
C34_ClickClearsUnlessMember ==
  [][/\ lastOp'.op = "mapClick" /\ selectedDepartments # <<>>
          => IF ClickedMember(lastOp', selectedDepartments)
             THEN selectedDepartments' = selectedDepartments
             ELSE deselectTimer' \/ selectedDepartments' = <<>>
     /\ lastOp.op = "mapClick" /\ lastOp'.op = "deselectTimer"
          /\ selectedDepartments # <<>>
          => IF ClickedMember(lastOp, selectedDepartments)
             THEN selectedDepartments' = selectedDepartments
             ELSE selectedDepartments' = <<>>]_vars

\* C36: when the load of the catalog has failed the engine never becomes
\* ready, and no operation on the partition has run.
C36_NoEngineWithoutCatalog ==
  loads.geo \in {"failed", "rejected"} => phase # "ready" /\ lastOp.op = "init"

\* C35: the polygon never holds more than 100 points, a point is added only
\* in polygon mode, and the click that adds the 100th point finalizes the
\* polygon in the same handler, which leaves polygon mode off.
C35_PointLimit ==
  [][/\ polygonPoints'.n <= PointLimit
     /\ polygonPoints'.n > polygonPoints.n => polygonMode /\ lastOp'.op = "mapClick"
     /\ polygonPoints'.n > polygonPoints.n /\ polygonPoints'.n = PointLimit
          => ~polygonMode' /\ lastOp'.batch]_vars

\* The partition and its labels are the same in two states of the lists.
SamePartition(a, b) ==
  /\ a.count = b.count
  /\ SameUnits(a.main, b.main)
  /\ \A i \in 1..a.count : SameUnits(a.divs[i], b.divs[i])
  /\ \A i \in 1..a.count : a.groups[i].name = b.groups[i].name

\* C37: the current region type stays non-null only while the partition is
\* the one the last region load produced: a step that is no region load and
\* leaves a region type set leaves the partition as it was, and every drag,
\* count change, name edit and reset leaves the region type null.
C37_RegionTypeTracksPartition ==
  [][/\ lastOp'.op \in {"drag", "resize", "editName", "reset"}
          => currentRegionType' = "null"
     /\ currentRegionType' # "null" /\ lastOp'.op # "regionLoad"
          => SamePartition([count |-> currentDivisionCount', main |-> mainList',
                            divs |-> divisionList', groups |-> departmentGroups'],
                           Now)]_vars

\* C38: after every completed operation the store holds exactly the groups
\* 1..K, the member list of group i holds the units displayed in division i
\* (each as many times as it is displayed), the count the comparison table
\* reports for group i is that number, and the remaining-units counter is the
\* number of items in the pool.
C38_StoreMatchesLists ==
  phase = "ready" =>
    /\ DOMAIN departmentGroups = 1..currentDivisionCount
    /\ DOMAIN divisionList = 1..currentDivisionCount
    /\ \A i \in 1..currentDivisionCount :
         /\ \A n \in CatalogNames :
              CountIn(departmentGroups[i].departments, n)
                = CountIn(Names(divisionList[i]), n)
         /\ Len(departmentGroups[i].departments) = Len(divisionList[i])
         /\ comparisonTable.cantidad[i] = Len(divisionList[i])
    /\ remainingCount = Len(mainList)

\* A polygon selection has just been finalized over a partition with a
\* non-empty group, and it changed the pool.
C38_Witness ==
  /\ lastOp.op = "rightClick" /\ lastOp.batch
  /\ selectedDepartments # <<>>
  /\ \E i \in 1..currentDivisionCount :
       /\ divisionList[i] # <<>>
       /\ \E k \in DOMAIN divisionList[i] :
            InSelection(selectedDepartments, divisionList[i][k].nam)
  /\ remainingCount = Len(PBAFeatures)

\* The lists and store after resize(n) followed at once by resize(k).
ResizeAndBack(v, s, n, k) ==
  initializeDivisionBoxes(v, initializeDivisionBoxes(v, s, n), k)

\* C39: from every state, for every n with K <= n <= 12, a resize to n
\* followed at once by a resize to K leaves the pool as it was, item by item,
\* and every group 1..K with the members it had, in the store in the same
\* order and in its list unit for unit; for n = K this is the resize to the
\* current count, which on its own changes neither the pool nor the members.
C39_ResizeRoundTrip ==
  phase = "ready" =>
    \A n \in currentDivisionCount..DivisionLimit :
      LET b == ResizeAndBack(variant, Now, n, currentDivisionCount)
          same == initializeDivisionBoxes(variant, Now, currentDivisionCount)
      IN /\ b.count = currentDivisionCount
         /\ b.main = mainList
         /\ same.main = mainList
         /\ \A i \in 1..currentDivisionCount :
              /\ b.groups[i].departments = departmentGroups[i].departments
              /\ SameUnits(b.divs[i], divisionList[i])
              /\ same.groups[i].departments = departmentGroups[i].departments
              /\ SameUnits(same.divs[i], divisionList[i])

\* The count has just been raised over a partition with a non-empty group
\* and a non-empty pool, and the resize back to the former count is the
\* second half of a round trip.
C39_Witness ==
  /\ lastOp.op = "resize" /\ lastOp.from < lastOp.to
  /\ mainList # <<>>
  /\ \E i \in 1..lastOp.from : Len(departmentGroups[i].departments) >= 1
  /\ initializeDivisionBoxes(variant, Now, lastOp.from).count = lastOp.from
  /\ DOMAIN initializeDivisionBoxes(variant, Now, lastOp.from).groups = 1..lastOp.from

(***************************************************************************)
(* The deferred sort of the pool and the operations that follow it         *)
(***************************************************************************)
\* The lists and store once the pending sort of the pool has run.
Sorted(s) == [s EXCEPT !.main = sortMainList(s.main)]

\* Two states of the lists and store hold the same units in the pool and in
\* every group.
SamePlaces(a, b) ==
  /\ a.count = b.count
  /\ SameUnits(a.main, b.main)
  /\ DOMAIN a.divs = DOMAIN b.divs
  /\ \A i \in DOMAIN a.divs : SameUnits(a.divs[i], b.divs[i])
  /\ DOMAIN a.groups = DOMAIN b.groups
  /\ \A i \in DOMAIN a.groups : \A n \in CatalogNames :
       CountIn(a.groups[i].departments, n) = CountIn(b.groups[i].departments, n)

\* The bounds of the polygons that two clicks span.
PolygonBoxes ==
  {<<Min(p[1], q[1]), Max(p[1], q[1]), Min(p[2], q[2]), Max(p[2], q[2])>> :
     p \in ClickPoints, q \in ClickPoints}

\* Every drag gives the same partition whether the pending sort of the pool
\* runs before it or after it.  A drop into the pool may land anywhere.
DragsCommuteWithSort ==
  \A from \in Locations, to \in Locations :
    \A k \in DOMAIN ListOf(Now, from) :
      LET it == ListOf(Now, from)[k]
          slots == 1..(Len(ListOf(Now, to)) + (IF from = to THEN 0 ELSE 1))
      IN \A p \in slots :
           \A k2 \in {j \in DOMAIN ListOf(Sorted(Now), from) :
                        ListOf(Sorted(Now), from)[j] = it} :
             \A p2 \in (IF to = POOL THEN slots ELSE {p}) :
               SamePlaces(
                 handleDepartmentMove(variant, SortableDrop(Now, from, k, to, p),
                                      selectedDepartments, it, from, to),
                 handleDepartmentMove(variant, SortableDrop(Sorted(Now), from, k2, to, p2),
                                      selectedDepartments, it, from, to))

\* The same for a resize, a region load and a polygon selection.
RebuildsCommuteWithSort ==
  /\ \A n \in 1..DivisionLimit :
       SamePlaces(initializeDivisionBoxes(variant, Now, n),
                  initializeDivisionBoxes(variant, Sorted(Now), n))
  /\ \A tipo \in RegionTypes :
       regionesDe(regionesExistentes, tipo) # <<>> =>
         SamePlaces(loadExistingRegions(variant, Now,
                                        regionesDe(regionesExistentes, tipo)),
                    loadExistingRegions(variant, Sorted(Now),
                                        regionesDe(regionesExistentes, tipo)))
  /\ \A box \in PolygonBoxes :
       SamePlaces(AfterSelection(variant, Now, SelectByPolygon(box)),
                  AfterSelection(variant, Sorted(Now), SelectByPolygon(box)))

\* C40: the deferred sort of the pool, whenever it runs, leaves every unit
\* where it is: the pool holds the same units in sorted order, the groups,
\* their lists and the count are untouched; and from the state in which it
\* runs every operation leads to the same partition whether the sort has run
\* before the operation or runs after it.
C40_SortTimerOnlyReorders ==
  [][lastOp'.op = "sortTimer"
          => /\ SameUnits(mainList', mainList)
             /\ IsSortedPool(mainList')
             /\ UNCHANGED <<currentDivisionCount, divisionList, departmentGroups,
                            remainingCount, comparisonTable, selectedDepartments>>
             /\ DragsCommuteWithSort
             /\ RebuildsCommuteWithSort]_vars

\* The sort that a drop into the pool scheduled has just run after a later
\* polygon selection, whose selection still stands.
C40_Witness ==
  /\ lastOp.op = "sortTimer"
  /\ ~sortTimer
  /\ used >= 3
  /\ selectedDepartments # <<>>
  /\ Len(mainList) >= 2
  /\ IsSortedPool(mainList)
====
